---- MODULE Spec2Model ----
(***************************************************************************)
(* The Monkey interpreter (Week 13): the parser, src/parser/parser.rs, and *)
(* the tree-walking evaluator, src/evaluator/evaluator.rs,                 *)
(* src/evaluator/object.rs, src/ast/ast.rs, as the loop of src/bin/main.rs *)
(* runs them on the lines that are typed.                                  *)
(* The recursive methods of Evaluator are unfolded into a machine with an  *)
(* explicit stack of activation records: one record per active method      *)
(* call, holding the method's arguments, its local variables and the place *)
(* where it continues.  `ret` carries the value a method hands back to its *)
(* caller.                                                                  *)
(***************************************************************************)
EXTENDS FiniteSets, Integers, Sequences, TLC

VARIABLES
    overflow_checks, \* the build: TRUE when integer overflow is checked (debug)
    rl,           \* the Editor: the lines typed and how many readline has returned
    parser,       \* the Parser: lexer, cur_token, peek_token, errors
    program,      \* the Program built by parse_program, handed to Evaluator::eval
    stack,        \* activation records of the Evaluator's methods, innermost last
    ret,          \* value returned by the method that returned last
    heap,         \* every Environment instance created so far, by address
    environment,  \* Evaluator.environment: address of the active Environment
    status,       \* "reading" | "parsing" | "rejected" | "running" | "done" | "panic"
    output,       \* what Evaluator::eval returned (Option<Object>)
    history       \* observations of the run, in order

vars == <<overflow_checks, rl, parser, program, stack, ret, heap, environment, status, output, history>>

----------------------------------------------------------------------------
(* Bounds of the checked instance.                                         *)

MaxInt == 2
MaxParams == 2
MaxDepth == 2

----------------------------------------------------------------------------
(* Option<T>                                                               *)

None == [some |-> FALSE]
Some(object) == [some |-> TRUE, obj |-> object]

----------------------------------------------------------------------------
(* i64, the type of Token::Int, Literal::Int and Object::Int.  An integer  *)
(* is held as its sign and its decimal digits, the most significant first  *)
(* and without leading zeros, so that every i64 and the exact result of    *)
(* every operation on two of them can be written down.                     *)

\* digits without their leading zeros
Strip(digits) ==
    LET nonzero == {i \in 1..Len(digits) : digits[i] /= 0}
    IN  IF nonzero = {} THEN <<0>>
        ELSE SubSeq(digits, CHOOSE i \in nonzero : \A j \in nonzero : i <= j,
                    Len(digits))

\* digits with leading zeros up to the length n
Pad(digits, n) ==
    [i \in 1..n |-> IF i <= n - Len(digits) THEN 0 ELSE digits[i - (n - Len(digits))]]

\* -1, 0 or 1 as the digits of a are less than, equal to or more than those of b
Compare(a, b) ==
    IF Len(a) /= Len(b) THEN (IF Len(a) < Len(b) THEN -1 ELSE 1)
    ELSE LET differ == {i \in 1..Len(a) : a[i] /= b[i]}
         IN  IF differ = {} THEN 0
             ELSE LET first == CHOOSE i \in differ : \A j \in differ : i <= j
                  IN  IF a[first] < b[first] THEN -1 ELSE 1

\* a + b: position i passes a carry on when some position from i to the
\* right makes one and every position between passes it on
RECURSIVE AddMagnitude(_, _)
AddMagnitude(a, b) ==
    IF Len(a) < Len(b) THEN AddMagnitude(b, a)
    ELSE LET n == 1 + Len(a)
             x == Pad(a, n)
             y == Pad(b, n)
             carry(i) == \E j \in i..n : /\ x[j] + y[j] >= 10
                                         /\ \A k \in i..(j - 1) : x[k] + y[k] = 9
         IN  Strip([i \in 1..n |->
                     (x[i] + y[i] + (IF i < n /\ carry(i + 1) THEN 1 ELSE 0)) % 10])

\* a - b for a >= b: position i borrows when some position from i to the
\* right must and every position between has equal digits
SubMagnitude(a, b) ==
    LET n == Len(a)
        y == Pad(b, n)
        borrow(i) == \E j \in i..n : /\ a[j] < y[j]
                                     /\ \A k \in i..(j - 1) : a[k] = y[k]
    IN  Strip([i \in 1..n |->
                (a[i] - y[i] - (IF i < n /\ borrow(i + 1) THEN 1 ELSE 0) + 10) % 10])

\* a * d for d in 0..9: twice a * (d \div 2), and a more when d is odd
RECURSIVE MulDigit(_, _)
MulDigit(a, d) ==
    IF d = 0 THEN <<0>>
    ELSE IF d = 1 THEN a
    ELSE LET half == MulDigit(a, d \div 2)
         IN  AddMagnitude(AddMagnitude(half, half), IF d % 2 = 1 THEN a ELSE <<0>>)

\* a * b, one digit of b after the other from the digit i on: product is
\* a times the digits of b before i
RECURSIVE MulMagnitude(_, _, _, _)
MulMagnitude(a, b, i, product) ==
    IF i > Len(b) THEN product
    ELSE LET next == MulDigit(a, b[i])
         IN  IF product = <<0>> THEN MulMagnitude(a, b, i + 1, next)
             ELSE MulMagnitude(a, b, i + 1, AddMagnitude(Append(product, 0), next))

\* long division of a by b, b not zero, from the digit i of a on: quotient
\* holds the digits found so far and remainder what the digits before i
\* leave; the next digit is the number of multiples of b that fit
RECURSIVE DivMagnitude(_, _, _, _, _)
DivMagnitude(a, b, i, quotient, remainder) ==
    IF i > Len(a) THEN [quotient |-> Strip(quotient), remainder |-> remainder]
    ELSE LET rest == Strip(Append(remainder, a[i]))
             digit == Cardinality({d \in 1..9 : Compare(MulDigit(b, d), rest) <= 0})
         IN  IF digit = 0
             THEN DivMagnitude(a, b, i + 1, Append(quotient, 0), rest)
             ELSE DivMagnitude(a, b, i + 1, Append(quotient, digit),
                               SubMagnitude(rest, MulDigit(b, digit)))

\* a divided by b: the digits of a that are fewer than those of b make no
\* quotient digit, the long division starts after them
Division(a, b) ==
    IF Len(a) < Len(b) THEN [quotient |-> <<0>>, remainder |-> a]
    ELSE DivMagnitude(a, b, Len(b), <<0>>, Strip(SubSeq(a, 1, Len(b) - 1)))

\* the integer with that sign and those digits; zero has no sign
Number(neg, digits) == [neg |-> neg /\ Strip(digits) /= <<0>>, digits |-> Strip(digits)]

RECURSIVE Decimal(_)
Decimal(n) == IF n < 10 THEN <<n>> ELSE Append(Decimal(n \div 10), n % 10)

\* the integer n
I64(n) == IF n < 0 THEN Number(TRUE, Decimal(-n)) ELSE Number(FALSE, Decimal(n))

RECURSIVE Magnitude(_)
Magnitude(digits) ==
    IF Len(digits) = 1 THEN digits[1]
    ELSE 10 * Magnitude(SubSeq(digits, 1, Len(digits) - 1)) + digits[Len(digits)]

\* the value of x
Value(x) == IF x.neg THEN -Magnitude(x.digits) ELSE Magnitude(x.digits)

Negate(x) == Number(~x.neg, x.digits)

Sum(x, y) ==
    IF x.neg = y.neg THEN Number(x.neg, AddMagnitude(x.digits, y.digits))
    ELSE IF Compare(x.digits, y.digits) >= 0
         THEN Number(x.neg, SubMagnitude(x.digits, y.digits))
         ELSE Number(y.neg, SubMagnitude(y.digits, x.digits))

Difference(x, y) == Sum(x, Negate(y))

Product(x, y) == Number(x.neg /= y.neg, MulMagnitude(x.digits, y.digits, 1, <<0>>))

\* x / y rounded toward zero, as i64 division rounds; y is not zero
Quotient(x, y) ==
    Number(x.neg /= y.neg, Division(x.digits, y.digits).quotient)

\* the remainder of x by y that is not negative; y is positive
Modulo(x, y) ==
    LET remainder == Division(x.digits, y.digits).remainder
    IN  IF x.neg /\ remainder /= <<0>>
        THEN Number(FALSE, SubMagnitude(y.digits, remainder))
        ELSE Number(FALSE, remainder)

Less(x, y) ==
    IF x.neg /= y.neg THEN x.neg
    ELSE IF x.neg THEN Compare(x.digits, y.digits) > 0
    ELSE Compare(x.digits, y.digits) < 0

\* i64::MIN = -(2^63), i64::MAX = 2^63 - 1, and 2^64
MinI64 == Number(TRUE, <<9, 2, 2, 3, 3, 7, 2, 0, 3, 6, 8, 5, 4, 7, 7, 5, 8, 0, 8>>)
MaxI64 == Number(FALSE, <<9, 2, 2, 3, 3, 7, 2, 0, 3, 6, 8, 5, 4, 7, 7, 5, 8, 0, 7>>)
TwoTo64 == Number(FALSE, <<1, 8, 4, 4, 6, 7, 4, 4, 0, 7, 3, 7, 0, 9, 5, 5, 1, 6, 1, 6>>)

InI64(x) == ~Less(x, MinI64) /\ ~Less(MaxI64, x)

\* the i64 that has the low 64 bits of x in two's complement
WrapI64(x) == Sum(Modulo(Difference(x, MinI64), TwoTo64), MinI64)

\* impl fmt::Display for i64
\* the digits from the position i to the position j, written one after the other
RECURSIVE DigitsDisplay(_, _, _)
DigitsDisplay(digits, i, j) ==
    IF i = j THEN ToString(digits[i])
    ELSE LET middle == (i + j) \div 2
         IN  DigitsDisplay(digits, i, middle) \o DigitsDisplay(digits, middle + 1, j)

IntDisplay(x) == (IF x.neg THEN "-" ELSE "") \o DigitsDisplay(x.digits, 1, Len(x.digits))

----------------------------------------------------------------------------
(* ast.rs: Expression, Statement, Literal                                  *)

Identifier(name) == [kind |-> "Identifier", name |-> name]
LiteralInt(value) == [kind |-> "Literal", literal |-> [kind |-> "Int", int |-> value]]
LiteralBool(value) == [kind |-> "Literal", literal |-> [kind |-> "Bool", bool |-> value]]
PrefixExpression(prefix, right) == [kind |-> "Prefix", prefix |-> prefix, right |-> right]
InfixExpression(infix, left, right) ==
    [kind |-> "Infix", infix |-> infix, left |-> left, right |-> right]
IfExpression(condition, consequence, alternative) ==
    [kind |-> "If", condition |-> condition, consequence |-> consequence,
     alternative |-> alternative]
FunctionExpression(parameters, body) ==
    [kind |-> "Function", parameters |-> parameters, body |-> body]
CallExpression(function, arguments) ==
    [kind |-> "Call", function |-> function, arguments |-> arguments]

LetStatement(identifier, expression) ==
    [kind |-> "Let", identifier |-> identifier, expression |-> expression]
ReturnStatement(expression) == [kind |-> "Return", expression |-> expression]
ExpressionStatement(expression) == [kind |-> "Expression", expression |-> expression]

Prefixes == {"Minus", "Not"}
Infixes == {"Plus", "Minus", "Multiply", "Divide", "Equal", "NotEqual",
            "LessThan", "GreaterThan"}

\* impl Display for Infix
InfixDisplay(infix) ==
    CASE infix = "Plus" -> "+"
      [] infix = "Minus" -> "-"
      [] infix = "Multiply" -> "*"
      [] infix = "Divide" -> "/"
      [] infix = "Equal" -> "=="
      [] infix = "NotEqual" -> "!="
      [] infix = "LessThan" -> "<"
      [] infix = "GreaterThan" -> ">"

----------------------------------------------------------------------------
(* object.rs: Object                                                       *)

ObjectInt(value) == [type |-> "Int", int |-> value]
ObjectBool(value) == [type |-> "Bool", bool |-> value]
ObjectFunction(parameters, body, env) ==
    [type |-> "Function", parameters |-> parameters, body |-> body, env |-> env]
ObjectNull == [type |-> "Null"]
ObjectReturnValue(value) == [type |-> "ReturnValue", value |-> value]
ObjectError(msg) == [type |-> "Error", msg |-> msg]

\* Display of a bool: "true" / "false"
BoolDisplay(value) == IF value THEN "true" ELSE "false"

\* the parameter list of a Function as Display writes it: "x, y"
RECURSIVE ParamsDisplay(_, _)
ParamsDisplay(params, i) ==
    IF i > Len(params) THEN ""
    ELSE (IF i < 2 THEN params[i] ELSE ", " \o params[i]) \o ParamsDisplay(params, i + 1)

\* impl fmt::Display for Object
RECURSIVE ObjectDisplay(_)
ObjectDisplay(object) ==
    CASE object.type = "Int" -> IntDisplay(object.int)
      [] object.type = "Bool" -> BoolDisplay(object.bool)
      [] object.type = "Function" ->
            "fn(" \o ParamsDisplay(object.parameters, 1) \o ") { ... }"
      [] object.type = "Null" -> "null"
      [] object.type = "ReturnValue" -> ObjectDisplay(object.value)
      [] object.type = "Error" -> object.msg

----------------------------------------------------------------------------
(* environment.rs: Environment { store, outer }.  An Environment lives at  *)
(* an address of `heap`; outer = 0 stands for no outer environment.        *)

NoOuter == 0

EnvironmentNew == [store |-> <<>>, outer |-> NoOuter]
EnvironmentNewWithOuter(outer) == [store |-> <<>>, outer |-> outer]

\* store is a list of (name, value) pairs with one pair per name
Bound(store, name) == \E i \in 1..Len(store) : store[i][1] = name
Lookup(store, name) == store[CHOOSE i \in 1..Len(store) : store[i][1] = name][2]

\* Environment::set: insert or overwrite in this scope only
EnvironmentSet(env, name, value) ==
    [env EXCEPT !.store =
        IF Bound(env.store, name)
        THEN [i \in 1..Len(env.store) |->
                IF env.store[i][1] = name THEN <<name, value>> ELSE env.store[i]]
        ELSE Append(env.store, <<name, value>>)]

\* Environment::get: this scope first, then the outer chain
RECURSIVE EnvironmentGet(_, _, _)
EnvironmentGet(h, address, name) ==
    IF Bound(h[address].store, name) THEN Some(Lookup(h[address].store, name))
    ELSE IF h[address].outer = NoOuter THEN None
    ELSE EnvironmentGet(h, h[address].outer, name)

----------------------------------------------------------------------------
(* evaluator.rs: the methods of Evaluator that call no other evaluation    *)

\* as in C: the integer zero is falsy too
is_truthy_nonzero(object) ==
    IF object.type = "Null" THEN FALSE
    ELSE IF object.type = "Bool" THEN object.bool
    ELSE IF object.type = "Int" THEN object.int /= I64(0)
    ELSE TRUE

\* lines 17-22
is_truthy(object) ==
    IF object.type = "Null" THEN FALSE
    ELSE IF object.type = "Bool" THEN object.bool
    ELSE TRUE

error(msg) == ObjectError(msg)

is_error(object) == object.type = "Error"

\* a binding of an outer scope wins over one of the active scope
eval_identifier_outer_first(identifier) ==
    LET outer == heap[environment].outer
        above == IF outer = NoOuter THEN None
                 ELSE EnvironmentGet(heap, outer, identifier.name)
        found == IF above.some THEN above
                 ELSE EnvironmentGet(heap, environment, identifier.name)
    IN  IF found.some THEN found.obj
        ELSE ObjectError("identifier not found: " \o identifier.name)

\* lines 141-148
eval_identifier(identifier) ==
    LET found == EnvironmentGet(heap, environment, identifier.name)
    IN  IF found.some THEN found.obj
        ELSE ObjectError("identifier not found: " \o identifier.name)

eval_literal(literal) ==
    IF literal.kind = "Int" THEN ObjectInt(literal.int) ELSE ObjectBool(literal.bool)

\* as in C: !0 is true
eval_not_operator_expression_zero(right) ==
    IF right.type = "Bool" THEN ObjectBool(~right.bool)
    ELSE IF right.type = "Null" THEN ObjectBool(TRUE)
    ELSE IF right.type = "Int" THEN ObjectBool(right.int = I64(0))
    ELSE ObjectBool(FALSE)

\* lines 164-171
eval_not_operator_expression(right) ==
    IF right.type = "Bool" THEN ObjectBool(~right.bool)
    ELSE IF right.type = "Null" THEN ObjectBool(TRUE)
    ELSE ObjectBool(FALSE)

\* an operation that cannot produce an Object panics: the thread unwinds
Panic == [type |-> "Panic"]

\* the outcome of -, +, * on i64 with the exact result n: n when it is an
\* i64; otherwise a panic when overflow is checked, else n wrapped
Arithmetic(n) ==
    IF InI64(n) THEN ObjectInt(n)
    ELSE IF overflow_checks THEN Panic
    ELSE ObjectInt(WrapI64(n))

eval_minus_prefix_expression(right) ==
    IF right.type = "Int" THEN Arithmetic(Negate(right.int))
    ELSE error("unknown operator: -" \o ObjectDisplay(right))

eval_prefix_expression(prefix, right) ==
    IF prefix = "Not" THEN eval_not_operator_expression(right)
    ELSE eval_minus_prefix_expression(right)

eval_infix_integer_expression(infix, left_value, right_value) ==
    CASE infix = "Plus" -> Arithmetic(Sum(left_value, right_value))
      [] infix = "Minus" -> Arithmetic(Difference(left_value, right_value))
      [] infix = "Multiply" -> Arithmetic(Product(left_value, right_value))
      [] infix = "Divide" ->
            \* a zero divisor panics in every build, and so does the one
            \* quotient that is no i64, that of the least i64 by -1
            IF right_value = I64(0) THEN Panic
            ELSE IF ~InI64(Quotient(left_value, right_value)) THEN Panic
            ELSE ObjectInt(Quotient(left_value, right_value))
      [] infix = "Equal" -> ObjectBool(left_value = right_value)
      [] infix = "NotEqual" -> ObjectBool(left_value /= right_value)
      [] infix = "LessThan" -> ObjectBool(Less(left_value, right_value))
      [] infix = "GreaterThan" -> ObjectBool(Less(right_value, left_value))

eval_infix_boolean_expression(infix, left_value, right_value) ==
    CASE infix = "Equal" -> ObjectBool(left_value = right_value)
      [] infix = "NotEqual" -> ObjectBool(left_value /= right_value)
      [] OTHER -> error("unknown operator: " \o BoolDisplay(left_value) \o " "
                        \o InfixDisplay(infix) \o " " \o BoolDisplay(right_value))

\* dispatch on whether the two types differ: mismatch if they do, unknown
\* operator if they agree on a type without operators
eval_infix_expression_by_pair(infix, left, right) ==
    CASE left.type = "Int" /\ right.type = "Int" ->
            eval_infix_integer_expression(infix, left.int, right.int)
      [] left.type = "Bool" /\ right.type = "Bool" ->
            eval_infix_boolean_expression(infix, left.bool, right.bool)
      [] left.type /= right.type ->
            error("type mismatch: " \o ObjectDisplay(left) \o " "
                  \o InfixDisplay(infix) \o " " \o ObjectDisplay(right))
      [] OTHER -> error("unknown operator: " \o ObjectDisplay(left) \o " "
                        \o InfixDisplay(infix) \o " " \o ObjectDisplay(right))

eval_infix_expression(infix, left, right) ==
    CASE left.type = "Int" ->
            IF right.type = "Int"
            THEN eval_infix_integer_expression(infix, left.int, right.int)
            ELSE error("type mismatch: " \o ObjectDisplay(left) \o " "
                       \o InfixDisplay(infix) \o " " \o ObjectDisplay(right))
      [] left.type = "Bool" ->
            IF right.type = "Bool"
            THEN eval_infix_boolean_expression(infix, left.bool, right.bool)
            ELSE error("type mismatch: " \o ObjectDisplay(left) \o " "
                       \o InfixDisplay(infix) \o " " \o ObjectDisplay(right))
      [] OTHER -> error("unknown operator: " \o ObjectDisplay(left) \o " "
                        \o InfixDisplay(infix) \o " " \o ObjectDisplay(right))

----------------------------------------------------------------------------
(* Activation records.  fn names the method, pc the place where it goes on *)
(* when it is the innermost record.                                        *)

FrameEval(statements) ==
    [fn |-> "eval", pc |-> "for", statements |-> statements, result |-> None]
FrameBlockStatement(statements) ==
    [fn |-> "eval_block_statement", pc |-> "for", statements |-> statements,
     result |-> None]
FrameStatement(statement) ==
    [fn |-> "eval_statement", pc |-> "start", statement |-> statement]
FrameExpression(expression) ==
    [fn |-> "eval_expression", pc |-> "start", expression |-> expression, left |-> None]
FrameIfExpression(condition, consequence, alternative) ==
    [fn |-> "eval_if_expression", pc |-> "start", condition |-> condition,
     consequence |-> consequence, alternative |-> alternative]
\* arguments: the argument expressions not yet evaluated; objects: the values
\* collected so far; callee: what the callee expression evaluated to (line 266);
\* current_env: the environment saved at line 282; entered_in: the
\* environment that was active when the call was entered
FrameCallExpression(function, arguments, active) ==
    [fn |-> "eval_call_expression", pc |-> "arguments", function |-> function,
     arguments |-> arguments, objects |-> <<>>, callee |-> None,
     current_env |-> NoOuter, entered_in |-> active]

Top == stack[Len(stack)]
Callers == SubSeq(stack, 1, Len(stack) - 1)
At(fn, pc) == status = "running" /\ stack /= <<>> /\ Top.fn = fn /\ Top.pc = pc

\* the innermost method calls `callee` and goes on at `frame` afterwards
Invoke(frame, callee) == stack' = Append(Append(Callers, frame), callee)
\* the innermost method goes on at `frame` without calling
Continue(frame) == stack' = Append(Callers, frame)
\* the innermost method returns `value` to its caller
Return(value) == stack' = Callers /\ ret' = value

Observe(event) == history' = Append(history, event)

\* number of function bodies being evaluated
RECURSIVE CallDepth(_)
CallDepth(frames) ==
    IF frames = <<>> THEN 0
    ELSE (IF Head(frames).fn = "eval_call_expression" /\ Head(frames).pc = "body"
          THEN 1 ELSE 0) + CallDepth(Tail(frames))

----------------------------------------------------------------------------
(* Evaluator::eval, lines 35-47                                            *)

\* what the match of line 39 does with the value of a statement:
\* stop with a result, or keep it as `result` and go on
eval_match_arm(object) ==
    IF object.some /\ object.obj.type = "ReturnValue"
    THEN [stop |-> TRUE, value |-> Some(object.obj.value)]
    ELSE IF object.some /\ object.obj.type = "Error"
    THEN [stop |-> TRUE, value |-> Some(ObjectError(object.obj.msg))]
    ELSE [stop |-> FALSE, value |-> object]

eval_for ==
    /\ At("eval", "for")
    /\ IF Top.statements = <<>>
       THEN /\ status' = "done"
            /\ output' = Top.result
            /\ stack' = <<>>
       ELSE /\ Invoke([Top EXCEPT !.pc = "match", !.statements = Tail(@)],
                      FrameStatement(Head(Top.statements)))
            /\ UNCHANGED <<status, output>>
    /\ UNCHANGED <<overflow_checks, rl, parser, program, ret, heap, environment, history>>

eval_match ==
    /\ At("eval", "match")
    /\ LET arm == eval_match_arm(ret)
       IN  IF arm.stop
           THEN /\ status' = "done"
                /\ output' = arm.value
                /\ stack' = <<>>
           ELSE /\ Continue([Top EXCEPT !.pc = "for", !.result = arm.value])
                /\ UNCHANGED <<status, output>>
    /\ UNCHANGED <<overflow_checks, rl, parser, program, ret, heap, environment, history>>

(* Evaluator::eval_block_statement, lines 49-61                            *)

eval_block_statement_match_arm(object) ==
    IF object.some /\ object.obj.type = "ReturnValue"
    THEN [stop |-> TRUE, value |-> Some(ObjectReturnValue(object.obj.value))]
    ELSE IF object.some /\ object.obj.type = "Error"
    THEN [stop |-> TRUE, value |-> Some(ObjectError(object.obj.msg))]
    ELSE [stop |-> FALSE, value |-> object]

eval_block_statement_for ==
    /\ At("eval_block_statement", "for")
    /\ IF Top.statements = <<>>
       THEN Return(Top.result)
       ELSE /\ Invoke([Top EXCEPT !.pc = "match", !.statements = Tail(@)],
                      FrameStatement(Head(Top.statements)))
            /\ UNCHANGED ret
    /\ UNCHANGED <<overflow_checks, rl, parser, program, heap, environment, status, output, history>>

eval_block_statement_match ==
    /\ At("eval_block_statement", "match")
    /\ LET arm == eval_block_statement_match_arm(ret)
       IN  IF arm.stop
           THEN Return(arm.value)
           ELSE /\ Continue([Top EXCEPT !.pc = "for", !.result = arm.value])
                /\ UNCHANGED ret
    /\ UNCHANGED <<overflow_checks, rl, parser, program, heap, environment, status, output, history>>

----------------------------------------------------------------------------
(* Evaluator::eval_statement, lines 63-101                                 *)

\* every kind of statement first evaluates its expression (lines 66, 81, 89)
eval_statement_start ==
    /\ At("eval_statement", "start")
    /\ Invoke([Top EXCEPT !.pc = "value"], FrameExpression(Top.statement.expression))
    /\ Observe([ev |-> "statement", statement |-> Top.statement,
                env |-> environment, depth |-> CallDepth(stack)])
    /\ UNCHANGED <<overflow_checks, rl, parser, program, ret, heap, environment, status, output>>

\* an Error is bound like any other value
let_binds_error(value) == value.some

\* Statement::Let, lines 66-78: whether the value is bound
let_binds(value) == value.some /\ ~is_error(value.obj)

\* every let writes the top-level environment, the one without an outer
let_scope_top == CHOOSE address \in DOMAIN heap : heap[address].outer = NoOuter

\* inside a call the let writes the environment the call frame hangs off
let_scope_outer ==
    IF heap[environment].outer = NoOuter THEN environment ELSE heap[environment].outer

\* line 75: the environment the let writes is the active one
let_scope == environment

eval_statement_let ==
    /\ At("eval_statement", "value")
    /\ Top.statement.kind = "Let"
    /\ IF ~ret.some
       THEN Return(None) /\ UNCHANGED <<heap, history>>
       ELSE IF ~let_binds(ret)
       THEN Return(Some(ret.obj)) /\ UNCHANGED <<heap, history>>
       ELSE /\ heap' = [heap EXCEPT ![let_scope] =
                            EnvironmentSet(@, Top.statement.identifier, ret.obj)]
            /\ Observe([ev |-> "set", env |-> let_scope,
                        name |-> Top.statement.identifier, value |-> ret.obj])
            /\ Return(None)
    /\ UNCHANGED <<overflow_checks, rl, parser, program, environment, status, output>>

\* Statement::Expression, lines 81-86
eval_statement_expression ==
    /\ At("eval_statement", "value")
    /\ Top.statement.kind = "Expression"
    /\ IF ~ret.some THEN Return(None) ELSE Return(Some(ret.obj))
    /\ UNCHANGED <<overflow_checks, rl, parser, program, heap, environment, status, output, history>>

\* Statement::Return, lines 89-98: the value the statement yields
return_value(value) ==
    IF is_error(value) THEN Some(value) ELSE Some(ObjectReturnValue(value))

eval_statement_return ==
    /\ At("eval_statement", "value")
    /\ Top.statement.kind = "Return"
    /\ IF ~ret.some
       THEN Return(None) /\ UNCHANGED history
       ELSE /\ Return(return_value(ret.obj))
            /\ Observe([ev |-> "return", env |-> environment,
                        depth |-> CallDepth(stack), value |-> return_value(ret.obj)])
    /\ UNCHANGED <<overflow_checks, rl, parser, program, heap, environment, status, output>>

----------------------------------------------------------------------------
(* Evaluator::eval_expression, lines 103-139                               *)

\* eval_expression hands `value` back to its caller
ReturnExpression(value) ==
    /\ Return(value)
    /\ Observe([ev |-> "value", expression |-> Top.expression,
                env |-> environment, value |-> value, level |-> Len(stack)])

\* the same after an operator has been applied, which `applied` describes
ReturnExpressionAfter(value, applied) ==
    /\ Return(value)
    /\ history' = history \o <<applied, [ev |-> "value", expression |-> Top.expression,
                                         env |-> environment, value |-> value,
                                         level |-> Len(stack)]>>

eval_expression_identifier ==
    /\ At("eval_expression", "start")
    /\ Top.expression.kind = "Identifier"
    /\ ReturnExpression(Some(eval_identifier(Top.expression)))
    /\ UNCHANGED <<overflow_checks, rl, parser, program, heap, environment, status, output>>

eval_expression_literal ==
    /\ At("eval_expression", "start")
    /\ Top.expression.kind = "Literal"
    /\ ReturnExpression(Some(eval_literal(Top.expression.literal)))
    /\ UNCHANGED <<overflow_checks, rl, parser, program, heap, environment, status, output>>

\* Expression::Prefix, line 108: evaluate the operand
eval_expression_prefix ==
    /\ At("eval_expression", "start")
    /\ Top.expression.kind = "Prefix"
    /\ Invoke([Top EXCEPT !.pc = "prefix_right"], FrameExpression(Top.expression.right))
    /\ UNCHANGED <<overflow_checks, rl, parser, program, ret, heap, environment, status, output, history>>

\* lines 108-112: apply the operator to the operand's value, if there is one
eval_expression_prefix_right ==
    /\ At("eval_expression", "prefix_right")
    /\ IF ret.some
       THEN LET object == eval_prefix_expression(Top.expression.prefix, ret.obj)
            IN  IF object = Panic
                THEN /\ status' = "panic"
                     /\ stack' = <<>>
                     /\ UNCHANGED <<ret, history>>
                ELSE /\ ReturnExpressionAfter(Some(object),
                            [ev |-> "prefix", prefix |-> Top.expression.prefix,
                             right |-> ret.obj, object |-> object])
                     /\ UNCHANGED status
       ELSE /\ ReturnExpression(None)
            /\ UNCHANGED status
    /\ UNCHANGED <<overflow_checks, rl, parser, program, heap, environment, output>>

\* Expression::Infix, line 115: evaluate the left operand
eval_expression_infix ==
    /\ At("eval_expression", "start")
    /\ Top.expression.kind = "Infix"
    /\ Invoke([Top EXCEPT !.pc = "infix_left"], FrameExpression(Top.expression.left))
    /\ UNCHANGED <<overflow_checks, rl, parser, program, ret, heap, environment, status, output, history>>

\* line 116: keep the left value and evaluate the right operand
eval_expression_infix_left ==
    /\ At("eval_expression", "infix_left")
    /\ Invoke([Top EXCEPT !.pc = "infix_right", !.left = ret],
              FrameExpression(Top.expression.right))
    /\ UNCHANGED <<overflow_checks, rl, parser, program, ret, heap, environment, status, output, history>>

\* lines 118-122: apply the operator when both operands have a value
eval_expression_infix_right ==
    /\ At("eval_expression", "infix_right")
    /\ IF Top.left.some /\ ret.some
       THEN LET object == eval_infix_expression(Top.expression.infix, Top.left.obj, ret.obj)
            IN  IF object = Panic
                THEN /\ status' = "panic"
                     /\ stack' = <<>>
                     /\ UNCHANGED <<ret, history>>
                ELSE /\ ReturnExpressionAfter(Some(object),
                            [ev |-> "infix", infix |-> Top.expression.infix,
                             left |-> Top.left.obj, right |-> ret.obj,
                             object |-> object])
                     /\ UNCHANGED status
       ELSE /\ ReturnExpression(None)
            /\ UNCHANGED status
    /\ UNCHANGED <<overflow_checks, rl, parser, program, heap, environment, output>>

\* Expression::If, lines 124-128
eval_expression_if ==
    /\ At("eval_expression", "start")
    /\ Top.expression.kind = "If"
    /\ Invoke([Top EXCEPT !.pc = "if_value"],
              FrameIfExpression(Top.expression.condition, Top.expression.consequence,
                                Top.expression.alternative))
    /\ UNCHANGED <<overflow_checks, rl, parser, program, ret, heap, environment, status, output, history>>

eval_expression_if_value ==
    /\ At("eval_expression", "if_value")
    /\ ReturnExpression(ret)
    /\ UNCHANGED <<overflow_checks, rl, parser, program, heap, environment, status, output>>

\* Expression::Function, lines 129-133: the function captures the active environment
function_object(parameters, body) == ObjectFunction(parameters, body, environment)

\* the function holds a copy of the active environment, made at the literal
capture_copy(parameters, body) ==
    [object |-> ObjectFunction(parameters, body, Len(heap) + 1),
     heap |-> Append(heap, heap[environment])]

\* line 132, Rc::clone: the function and the evaluator hold the same
\* Environment; no Environment is created
capture(parameters, body) ==
    [object |-> function_object(parameters, body), heap |-> heap]

eval_expression_function ==
    /\ At("eval_expression", "start")
    /\ Top.expression.kind = "Function"
    /\ LET captured == capture(Top.expression.parameters, Top.expression.body)
       IN  /\ ReturnExpression(Some(captured.object))
           /\ heap' = captured.heap
    /\ UNCHANGED <<overflow_checks, rl, parser, program, environment, status, output>>

\* Expression::Call, lines 134-137
eval_expression_call ==
    /\ At("eval_expression", "start")
    /\ Top.expression.kind = "Call"
    /\ Invoke([Top EXCEPT !.pc = "call_value"],
              FrameCallExpression(Top.expression.function, Top.expression.arguments,
                                  environment))
    /\ Observe([ev |-> "call", expression |-> Top.expression, env |-> environment,
                level |-> Len(stack)])
    /\ UNCHANGED <<overflow_checks, rl, parser, program, ret, heap, environment, status, output>>

\* eval_call_expression returns an Object, which line 137 wraps in Some
eval_expression_call_value ==
    /\ At("eval_expression", "call_value")
    /\ ReturnExpression(Some(ret))
    /\ UNCHANGED <<overflow_checks, rl, parser, program, heap, environment, status, output>>

----------------------------------------------------------------------------
(* Evaluator::eval_if_expression, lines 233-251                            *)

eval_if_expression_start ==
    /\ At("eval_if_expression", "start")
    /\ Invoke([Top EXCEPT !.pc = "condition"], FrameExpression(Top.condition))
    /\ UNCHANGED <<overflow_checks, rl, parser, program, ret, heap, environment, status, output, history>>

\* lines 244-250: the block the condition selects, if any
if_selects(condition, consquence, alternative) ==
    IF is_truthy(condition) THEN Some(consquence)
    ELSE IF alternative.some THEN Some(alternative.obj)
    ELSE None

eval_if_expression_condition ==
    /\ At("eval_if_expression", "condition")
    /\ IF ~ret.some
       THEN Return(None)
       ELSE LET block == if_selects(ret.obj, Top.consequence, Top.alternative)
            IN  IF block.some
                THEN /\ Invoke([Top EXCEPT !.pc = "block"], FrameBlockStatement(block.obj))
                     /\ UNCHANGED ret
                ELSE Return(None)
    /\ UNCHANGED <<overflow_checks, rl, parser, program, heap, environment, status, output, history>>

eval_if_expression_block ==
    /\ At("eval_if_expression", "block")
    /\ Return(ret)
    /\ UNCHANGED <<overflow_checks, rl, parser, program, heap, environment, status, output, history>>

----------------------------------------------------------------------------
(* Evaluator::eval_call_expression, lines 253-301                          *)

\* eval_call_expression hands `object` back; `callee` is what the callee
\* expression evaluated to and `frame` the environment the body ran in, if any
ReturnCall(object, callee, frame) ==
    /\ Return(object)
    /\ Observe([ev |-> "returned", object |-> object, function |-> callee,
                objects |-> Top.objects, frame |-> frame,
                entered_in |-> Top.entered_in, depth |-> CallDepth(Callers),
                level |-> Len(stack)])

\* the arguments are taken from the right
next_argument_last(arguments) ==
    [expression |-> arguments[Len(arguments)],
     rest |-> SubSeq(arguments, 1, Len(arguments) - 1)]

\* lines 258-264, `arguments.iter().map(...)`: the first one not yet evaluated
next_argument(arguments) ==
    [expression |-> Head(arguments), rest |-> Tail(arguments)]

\* lines 258-264: the next argument expression, or the callee when none is left
eval_call_expression_arguments ==
    /\ At("eval_call_expression", "arguments")
    /\ IF Top.arguments /= <<>>
       THEN Invoke([Top EXCEPT !.pc = "argument",
                               !.arguments = next_argument(@).rest],
                   FrameExpression(next_argument(Top.arguments).expression))
       ELSE Invoke([Top EXCEPT !.pc = "function"], FrameExpression(Top.function))
    /\ UNCHANGED <<overflow_checks, rl, parser, program, ret, heap, environment, status, output, history>>

\* line 262: unwrap_or(Object::Null)
unwrap_or_null(value) == IF value.some THEN value.obj ELSE ObjectNull

eval_call_expression_argument ==
    /\ At("eval_call_expression", "argument")
    /\ Continue([Top EXCEPT !.pc = "arguments",
                            !.objects = Append(@, unwrap_or_null(ret))])
    /\ UNCHANGED <<overflow_checks, rl, parser, program, ret, heap, environment, status, output, history>>

\* every callee that is not a Function makes the call yield Null
callee_outcome_silent(function) ==
    IF function.some /\ function.obj.type = "Function"
    THEN [proceed |-> TRUE, object |-> function.obj]
    ELSE [proceed |-> FALSE, object |-> ObjectNull]

\* lines 266-272: what the callee's value makes of the call
callee_outcome(function) ==
    IF ~function.some THEN [proceed |-> FALSE, object |-> ObjectNull]
    ELSE IF function.obj.type = "Function" THEN [proceed |-> TRUE, object |-> function.obj]
    ELSE [proceed |-> FALSE,
          object |-> error(ObjectDisplay(function.obj) \o " is not valid function")]

\* only a call with too few arguments is rejected
arity_mismatch_too_few(parameters, arguments) == Len(parameters) > Len(arguments)

\* lines 274-280
arity_mismatch(parameters, arguments) == Len(parameters) /= Len(arguments)
arity_error(parameters, arguments) ==
    error("wrong number of arguments: " \o ToString(Len(parameters))
          \o " expected but " \o ToString(Len(arguments)) \o " given")

\* lines 284-289: bind zip(parameters, arguments) one pair after the other
RECURSIVE bind_parameters(_, _, _)
bind_parameters(env, parameters, arguments) ==
    IF parameters = <<>> \/ arguments = <<>> THEN env
    ELSE bind_parameters(EnvironmentSet(env, Head(parameters), Head(arguments)),
                         Tail(parameters), Tail(arguments))

\* dynamic scoping: the call frame hangs off the caller's environment
scoped_env_of_caller(captured, parameters, arguments) ==
    bind_parameters(EnvironmentNewWithOuter(environment), parameters, arguments)

\* lines 283-289: the environment of the call frame; `captured` is the
\* environment held by the Function
scoped_env(captured, parameters, arguments) ==
    bind_parameters(EnvironmentNewWithOuter(captured), parameters, arguments)

\* lines 297-300
call_result(object) == IF object.some THEN object.obj ELSE ObjectNull

\* lines 266-293: the callee has been evaluated
eval_call_expression_function ==
    /\ At("eval_call_expression", "function")
    /\ LET callee == callee_outcome(ret)
       IN  IF ~callee.proceed
           THEN /\ ReturnCall(callee.object, ret, NoOuter)
                /\ UNCHANGED <<heap, environment>>
           ELSE IF arity_mismatch(callee.object.parameters, Top.objects)
           THEN /\ ReturnCall(arity_error(callee.object.parameters, Top.objects),
                              ret, NoOuter)
                /\ UNCHANGED <<heap, environment>>
           ELSE /\ heap' = Append(heap, scoped_env(callee.object.env,
                                                   callee.object.parameters,
                                                   Top.objects))
                /\ environment' = Len(heap) + 1
                /\ Invoke([Top EXCEPT !.pc = "body", !.callee = ret,
                                       !.current_env = environment],
                          FrameBlockStatement(callee.object.body))
                /\ Observe([ev |-> "frame", function |-> callee.object,
                            objects |-> Top.objects, env |-> Len(heap) + 1,
                            caller |-> environment, heap |-> heap,
                            level |-> Len(stack)])
                /\ UNCHANGED ret
    /\ UNCHANGED <<overflow_checks, rl, parser, program, status, output>>

\* the call-frame environment stays active after the call
restored_env_kept(frame) == environment

\* line 295: the environment that becomes active when the body is done
restored_env(frame) == frame.current_env

\* lines 293-300: the body has been evaluated
eval_call_expression_body ==
    /\ At("eval_call_expression", "body")
    /\ environment' = restored_env(Top)
    /\ ReturnCall(call_result(ret), Top.callee, environment)
    /\ UNCHANGED <<overflow_checks, rl, parser, program, heap, status, output>>

----------------------------------------------------------------------------
(* token.rs: Token.  A token is a record whose kind is the variant's name. *)

Token(kind) == [kind |-> kind]
TokenIdent(name) == [kind |-> "Ident", name |-> name]
TokenInt(value) == [kind |-> "Int", int |-> value]
TokenBool(value) == [kind |-> "Bool", bool |-> value]

\* #[derive(Debug)]: the text `{:?}` gives
TokenDebug(token) ==
    CASE token.kind = "Ident" -> "Ident(\"" \o token.name \o "\")"
      [] token.kind = "Int" -> "Int(" \o IntDisplay(token.int) \o ")"
      [] token.kind = "Bool" -> "Bool(" \o BoolDisplay(token.bool) \o ")"
      [] OTHER -> token.kind

\* #[derive(PartialEq)]
TokenEqual(a, b) == a.kind = b.kind /\ a = b

----------------------------------------------------------------------------
(* The lexer, as the parser sees it: a stream of tokens that ends in Eof   *)
(* and goes on yielding Eof.  input holds the tokens before the Eof.       *)

LexerNew(input) == [input |-> input, position |-> 1]

LexerNextToken(lexer) ==
    IF lexer.position <= Len(lexer.input)
    THEN [token |-> lexer.input[lexer.position],
          lexer |-> [lexer EXCEPT !.position = @ + 1]]
    ELSE [token |-> Token("Eof"), lexer |-> lexer]

----------------------------------------------------------------------------
(* ast.rs: Precedence, ordered by #[derive(PartialOrd)] as declared        *)

Precedence ==
    <<"Lowest", "Equals", "LessGreater", "Sum", "Product", "Prefix", "Call">>

PrecedenceLess(a, b) ==
    \E i \in 1..Len(Precedence) : \E j \in 1..Len(Precedence) :
        Precedence[i] = a /\ Precedence[j] = b /\ i < j

----------------------------------------------------------------------------
(* parser.rs: Parser.  Every method takes the parser and yields the parser *)
(* it leaves behind together with what it returns.  panicked: the parse    *)
(* was aborted by a panic; every method then returns at once.              *)

\* Parser::new, lines 48-60, before its two calls of next_token
ParserFields(lexer) ==
    [lexer |-> lexer, cur_token |-> Token("Eof"), peek_token |-> Token("Eof"),
     errors |-> <<>>, panicked |-> FALSE]

\* lines 78-81
next_token(p) ==
    LET next == LexerNextToken(p.lexer)
    IN  [p EXCEPT !.cur_token = p.peek_token, !.peek_token = next.token,
                  !.lexer = next.lexer]

\* lines 48-60
ParserNew(lexer) == next_token(next_token(ParserFields(lexer)))

\* lines 62-72
token_to_precedence(token) ==
    CASE token.kind \in {"Equal", "NotEqual"} -> "Equals"
      [] token.kind = "LessThan" -> "LessGreater"
      [] token.kind = "GreaterThan" -> "LessGreater"
      [] token.kind \in {"Plus", "Minus"} -> "Sum"
      [] token.kind \in {"Asterisk", "Slash"} -> "Product"
      [] token.kind = "Lparen" -> "Call"
      [] OTHER -> "Lowest"

cur_token_is(p, token) == TokenEqual(p.cur_token, token)
peek_token_is(p, token) == TokenEqual(p.peek_token, token)
cur_token_precedence(p) == token_to_precedence(p.cur_token)
peek_token_precedence(p) == token_to_precedence(p.peek_token)

ParseError(kind, msg) == [kind |-> kind, msg |-> msg]
\* impl Display for ParseError, lines 35-38 and 15-20
ParseErrorDisplay(err) ==
    (IF err.kind = "UnexpectedToken" THEN "Unexpected Token" ELSE err.kind)
        \o ": " \o err.msg

\* lines 109-117
error_next_token(p, token) ==
    [p EXCEPT !.errors = Append(@, ParseError("UnexpectedToken",
        "expected next token to be " \o TokenDebug(token) \o ", got "
            \o TokenDebug(p.peek_token) \o " instead"))]

\* lines 91-99
expect_peek(p, token) ==
    IF peek_token_is(p, token)
    THEN [parser |-> next_token(p), ok |-> TRUE]
    ELSE [parser |-> error_next_token(p, token), ok |-> FALSE]

\* what a parsing method hands back
Parsed(p, node) == [parser |-> p, node |-> node]
\* the panic of Option::unwrap on None
Unwrapped(p) == Parsed([p EXCEPT !.panicked = TRUE], None)

\* lines 253-258
parse_identifier(p) ==
    IF p.cur_token.kind = "Ident" THEN Some(p.cur_token.name) ELSE None

\* lines 260-265
parse_identifier_expression(p) ==
    IF parse_identifier(p).some THEN Some(Identifier(parse_identifier(p).obj))
    ELSE None

\* lines 267-272
parse_int_expression(p) ==
    IF p.cur_token.kind = "Int" THEN Some(LiteralInt(p.cur_token.int)) ELSE None

\* lines 274-279
parse_bool_expression(p) ==
    IF p.cur_token.kind = "Bool" THEN Some(LiteralBool(p.cur_token.bool = TRUE))
    ELSE None

\* lines 314-318
token_to_prefix(token) ==
    CASE token.kind = "Bang" -> Some("Not")
      [] token.kind = "Minus" -> Some("Minus")
      [] OTHER -> None

\* < and > are taken for each other
token_to_infix_swapped(token) ==
    CASE token.kind = "Plus" -> Some("Plus")
      [] token.kind = "Minus" -> Some("Minus")
      [] token.kind = "Asterisk" -> Some("Multiply")
      [] token.kind = "Slash" -> Some("Divide")
      [] token.kind = "Equal" -> Some("Equal")
      [] token.kind = "NotEqual" -> Some("NotEqual")
      [] token.kind = "LessThan" -> Some("GreaterThan")
      [] token.kind = "GreaterThan" -> Some("LessThan")
      [] OTHER -> None

\* lines 329-339
token_to_infix(token) ==
    CASE token.kind = "Plus" -> Some("Plus")
      [] token.kind = "Minus" -> Some("Minus")
      [] token.kind = "Asterisk" -> Some("Multiply")
      [] token.kind = "Slash" -> Some("Divide")
      [] token.kind = "Equal" -> Some("Equal")
      [] token.kind = "NotEqual" -> Some("NotEqual")
      [] token.kind = "LessThan" -> Some("LessThan")
      [] token.kind = "GreaterThan" -> Some("GreaterThan")
      [] OTHER -> None

\* lines 231-238: the tokens the infix loop hands to parse_infix_expression
InfixTokens == {"Plus", "Minus", "Asterisk", "Slash", "Equal", "NotEqual",
                "LessThan", "GreaterThan"}

\* the loop goes on at equal precedence too
infix_loop_continues_at_equal(p, precedence) ==
    /\ ~peek_token_is(p, Token("Semicolon"))
    /\ ~PrecedenceLess(peek_token_precedence(p), precedence)

\* line 229: the condition of the infix loop
infix_loop_continues(p, precedence) ==
    /\ ~peek_token_is(p, Token("Semicolon"))
    /\ PrecedenceLess(precedence, peek_token_precedence(p))

\* lines 164-166, 179-181: the let and return statements skip a `;` at cur
skip_cur_semicolon(p) ==
    IF cur_token_is(p, Token("Semicolon")) THEN next_token(p) ELSE p

\* lines 189-191: the expression statement skips a `;` at peek
skip_peek_semicolon(p) ==
    IF peek_token_is(p, Token("Semicolon")) THEN next_token(p) ELSE p

RECURSIVE self(_, _)

\* lines 134-140
parse_statement(p) ==
    CASE p.cur_token.kind = "Let" -> self("parse_let_statement", <<p>>)
      [] p.cur_token.kind = "Return" -> self("parse_return_statement", <<p>>)
      [] OTHER -> self("parse_expression_statement", <<p>>)

\* lines 142-169
parse_let_statement(p) ==
    IF p.peek_token.kind /= "Ident" THEN Parsed(p, None)
    ELSE LET named == next_token(p)
             identifier == parse_identifier(named)
             assign == expect_peek(named, Token("Assign"))
             value == self("parse_expression", <<next_token(assign.parser), "Lowest">>)
         IN  IF ~identifier.some THEN Parsed(named, None)
             ELSE IF ~assign.ok THEN Parsed(assign.parser, None)
             ELSE IF value.parser.panicked \/ ~value.node.some
             THEN Parsed(value.parser, None)
             ELSE Parsed(skip_cur_semicolon(value.parser),
                         Some(LetStatement(identifier.obj, value.node.obj)))

\* lines 171-184
parse_return_statement(p) ==
    LET value == self("parse_expression", <<next_token(p), "Lowest">>)
    IN  IF value.parser.panicked \/ ~value.node.some THEN Parsed(value.parser, None)
        ELSE Parsed(skip_cur_semicolon(value.parser),
                    Some(ReturnStatement(value.node.obj)))

\* lines 186-196
parse_expression_statement(p) ==
    LET value == self("parse_expression", <<p, "Lowest">>)
    IN  IF value.parser.panicked \/ ~value.node.some THEN Parsed(value.parser, None)
        ELSE Parsed(skip_peek_semicolon(value.parser),
                    Some(ExpressionStatement(value.node.obj)))

\* a block that ends without `}` is recorded as an error
parse_block_statement_closed(p) ==
    LET block == self("parse_block_statement_while", <<next_token(p), <<>>>>)
    IN  IF cur_token_is(block.parser, Token("Rbrace")) THEN block
        ELSE Parsed(error_next_token(block.parser, Token("Rbrace")), block.node)

\* lines 198-213; node is the Vec of statements
parse_block_statement(p) == self("parse_block_statement_while", <<next_token(p), <<>>>>)

\* lines 203-210: the loop, `block` holding the statements parsed so far
parse_block_statement_while(p, block) ==
    IF cur_token_is(p, Token("Rbrace")) \/ cur_token_is(p, Token("Eof"))
    THEN Parsed(p, block)
    ELSE LET statement == self("parse_statement", <<p>>)
         IN  IF statement.parser.panicked THEN Parsed(statement.parser, block)
             ELSE self("parse_block_statement_while", <<next_token(statement.parser),
                    IF statement.node.some THEN Append(block, statement.node.obj)
                    ELSE block>>)

\* lines 215-251
parse_expression(p, precedence) ==
    LET left == self("parse_expression_prefix", <<p>>)
    IN  IF left.parser.panicked THEN left
        ELSE self("parse_expression_while", <<left.parser, precedence, left.node>>)

\* lines 217-226: the prefix position
parse_expression_prefix(p) ==
    CASE p.cur_token.kind = "Ident" -> Parsed(p, parse_identifier_expression(p))
      [] p.cur_token.kind = "Int" -> Parsed(p, parse_int_expression(p))
      [] p.cur_token.kind = "Bool" -> Parsed(p, parse_bool_expression(p))
      [] p.cur_token.kind \in {"Bang", "Minus"} -> self("parse_prefix_expression", <<p>>)
      [] p.cur_token.kind = "Lparen" -> self("parse_grouped_expression", <<p>>)
      [] p.cur_token.kind = "If" -> self("parse_if_expression", <<p>>)
      [] p.cur_token.kind = "Function" -> self("parse_function_expression", <<p>>)
      [] OTHER -> Parsed(p, None)

\* lines 229-250: the infix loop, `left` being what has been parsed so far
parse_expression_while(p, precedence, left) ==
    IF ~infix_loop_continues(p, precedence) THEN Parsed(p, left)
    ELSE IF p.peek_token.kind \in InfixTokens
    THEN IF ~left.some THEN Unwrapped(next_token(p))
         ELSE LET infix == self("parse_infix_expression", <<next_token(p), left.obj>>)
              IN  IF infix.parser.panicked THEN infix
                  ELSE self("parse_expression_while", <<infix.parser, precedence, infix.node>>)
    ELSE IF p.peek_token.kind = "Lparen"
    THEN IF ~left.some THEN Unwrapped(next_token(p))
         ELSE LET call == self("parse_call_expression", <<next_token(p), left.obj>>)
              IN  IF call.parser.panicked THEN call
                  ELSE self("parse_expression_while", <<call.parser, precedence, call.node>>)
    ELSE Parsed(p, left)

\* lines 281-311; node is None or Some(Vec of expressions)
parse_expression_list(p, end) ==
    IF peek_token_is(p, end) THEN Parsed(next_token(p), Some(<<>>))
    ELSE LET first == self("parse_expression", <<next_token(p), "Lowest">>)
         IN  IF first.parser.panicked \/ ~first.node.some
             THEN Parsed(first.parser, None)
             ELSE self("parse_expression_list_while", <<first.parser, <<first.node.obj>>, end>>)

\* lines 296-310: the loop over `, expression` and the closing token
parse_expression_list_while(p, list, end) ==
    IF peek_token_is(p, Token("Comma"))
    THEN LET more == self("parse_expression", <<next_token(next_token(p)), "Lowest">>)
         IN  IF more.parser.panicked \/ ~more.node.some THEN Parsed(more.parser, None)
             ELSE self("parse_expression_list_while", <<more.parser,
                                              Append(list, more.node.obj), end>>)
    ELSE LET closed == expect_peek(p, end)
         IN  IF closed.ok THEN Parsed(closed.parser, Some(list))
             ELSE Parsed(closed.parser, None)

\* lines 313-326
parse_prefix_expression(p) ==
    LET prefix == token_to_prefix(p.cur_token)
        right == self("parse_expression", <<next_token(p), "Prefix">>)
    IN  IF ~prefix.some THEN Parsed(p, None)
        ELSE IF right.parser.panicked \/ ~right.node.some
        THEN Parsed(right.parser, None)
        ELSE Parsed(right.parser, Some(PrefixExpression(prefix.obj, right.node.obj)))

\* lines 328-349
parse_infix_expression(p, left) ==
    LET infix == token_to_infix(p.cur_token)
        right == self("parse_expression", <<next_token(p), cur_token_precedence(p)>>)
    IN  IF ~infix.some THEN Parsed(p, None)
        ELSE IF right.parser.panicked \/ ~right.node.some
        THEN Parsed(right.parser, None)
        ELSE Parsed(right.parser,
                    Some(InfixExpression(infix.obj, left, right.node.obj)))

\* lines 351-361
parse_call_expression(p, func) ==
    LET arguments == self("parse_expression_list", <<p, Token("Rparen")>>)
    IN  IF arguments.parser.panicked \/ ~arguments.node.some
        THEN Parsed(arguments.parser, None)
        ELSE Parsed(arguments.parser, Some(CallExpression(func, arguments.node.obj)))

\* lines 363-373
parse_grouped_expression(p) ==
    LET expr == self("parse_expression", <<next_token(p), "Lowest">>)
        closed == expect_peek(expr.parser, Token("Rparen"))
    IN  IF expr.parser.panicked THEN expr
        ELSE IF ~closed.ok THEN Parsed(closed.parser, None)
        ELSE Parsed(closed.parser, expr.node)

\* lines 375-409
parse_if_expression(p) ==
    LET opened == expect_peek(p, Token("Lparen"))
        condition == self("parse_expression", <<next_token(opened.parser), "Lowest">>)
        closed == expect_peek(condition.parser, Token("Rparen"))
        brace == expect_peek(closed.parser, Token("Lbrace"))
        consequence == self("parse_block_statement", <<brace.parser>>)
    IN  IF ~opened.ok THEN Parsed(opened.parser, None)
        ELSE IF condition.parser.panicked \/ ~condition.node.some
        THEN Parsed(condition.parser, None)
        ELSE IF ~closed.ok THEN Parsed(closed.parser, None)
        ELSE IF ~brace.ok THEN Parsed(brace.parser, None)
        ELSE IF consequence.parser.panicked THEN Parsed(consequence.parser, None)
        ELSE self("parse_if_expression_alternative", <<consequence.parser, condition.node.obj,
                                             consequence.node>>)

\* lines 392-408: the optional else block
parse_if_expression_alternative(p, condition, consequence) ==
    IF ~peek_token_is(p, Token("Else"))
    THEN Parsed(p, Some(IfExpression(condition, consequence, None)))
    ELSE LET brace == expect_peek(next_token(p), Token("Lbrace"))
             alternative == self("parse_block_statement", <<brace.parser>>)
         IN  IF ~brace.ok THEN Parsed(brace.parser, None)
             ELSE IF alternative.parser.panicked THEN Parsed(alternative.parser, None)
             ELSE Parsed(alternative.parser,
                         Some(IfExpression(condition, consequence,
                                           Some(alternative.node))))

\* lines 453-458 and 446-451: the loop over `, identifier` and the closing `)`
RECURSIVE parse_function_parameters_while(_, _)
parse_function_parameters_while(p, parameters) ==
    IF peek_token_is(p, Token("Comma"))
    THEN LET named == next_token(next_token(p))
             ident == parse_identifier(named)
         IN  IF ~ident.some THEN Parsed(named, None)
             ELSE parse_function_parameters_while(named, Append(parameters, ident.obj))
    ELSE LET closed == expect_peek(p, Token("Rparen"))
         IN  IF closed.ok THEN Parsed(closed.parser, Some(parameters))
             ELSE Parsed(closed.parser, None)

\* lines 431-461
parse_function_parameters(p) ==
    IF peek_token_is(p, Token("Rparen")) THEN Parsed(next_token(p), Some(<<>>))
    ELSE LET named == next_token(p)
             ident == parse_identifier(named)
         IN  IF ~ident.some THEN Parsed(named, None)
             ELSE parse_function_parameters_while(named, <<ident.obj>>)

\* lines 411-429
parse_function_expression(p) ==
    LET opened == expect_peek(p, Token("Lparen"))
        parameters == parse_function_parameters(opened.parser)
        brace == expect_peek(parameters.parser, Token("Lbrace"))
        body == parse_block_statement(brace.parser)
    IN  IF ~opened.ok THEN Parsed(opened.parser, None)
        ELSE IF ~parameters.node.some THEN Parsed(parameters.parser, None)
        ELSE IF ~brace.ok THEN Parsed(brace.parser, None)
        ELSE IF body.parser.panicked THEN Parsed(body.parser, None)
        ELSE Parsed(body.parser,
                    Some(FunctionExpression(parameters.node.obj, body.node)))

\* `self.method(arguments)`, a call of one parsing method by another: a[1] is
\* the parser and the rest of a are the arguments
self(method, a) ==
    CASE method = "parse_statement" -> parse_statement(a[1])
      [] method = "parse_let_statement" -> parse_let_statement(a[1])
      [] method = "parse_return_statement" -> parse_return_statement(a[1])
      [] method = "parse_expression_statement" -> parse_expression_statement(a[1])
      [] method = "parse_block_statement" -> parse_block_statement(a[1])
      [] method = "parse_block_statement_while" -> parse_block_statement_while(a[1], a[2])
      [] method = "parse_expression" -> parse_expression(a[1], a[2])
      [] method = "parse_expression_prefix" -> parse_expression_prefix(a[1])
      [] method = "parse_expression_while" -> parse_expression_while(a[1], a[2], a[3])
      [] method = "parse_expression_list" -> parse_expression_list(a[1], a[2])
      [] method = "parse_expression_list_while" -> parse_expression_list_while(a[1], a[2], a[3])
      [] method = "parse_prefix_expression" -> parse_prefix_expression(a[1])
      [] method = "parse_infix_expression" -> parse_infix_expression(a[1], a[2])
      [] method = "parse_call_expression" -> parse_call_expression(a[1], a[2])
      [] method = "parse_grouped_expression" -> parse_grouped_expression(a[1])
      [] method = "parse_if_expression" -> parse_if_expression(a[1])
      [] method = "parse_if_expression_alternative" -> parse_if_expression_alternative(a[1], a[2], a[3])
      [] method = "parse_function_expression" -> parse_function_expression(a[1])

----------------------------------------------------------------------------
(* The programs the evaluator is run on.                                   *)

Ints == 0..MaxInt

Then(statements) == IfExpression(LiteralBool(TRUE), statements, None)
Stmt(expression) == ExpressionStatement(expression)
Fn0(body) == FunctionExpression(<<>>, body)
Call0(function) == CallExpression(function, <<>>)

\* expressions by the kind of value they produce
IntAtoms == {LiteralInt(I64(n)) : n \in Ints}
BoolAtoms == {LiteralBool(b) : b \in BOOLEAN}
ErrorAtoms == {Identifier("foobar")}
\* if (true) { return 1 }: yields a ReturnValue
ReturnAtoms == {Then(<<ReturnStatement(LiteralInt(I64(1)))>>)}
\* if (false) { 1 }: yields no value
AbsentAtoms == {IfExpression(LiteralBool(FALSE), <<Stmt(LiteralInt(I64(1)))>>, None)}
\* fn() { }(): yields Null
NullAtoms == {Call0(Fn0(<<>>))}
FunctionAtoms == {FunctionExpression(<<"x">>, <<Stmt(Identifier("x"))>>)}
Atoms == IntAtoms \cup BoolAtoms \cup ErrorAtoms \cup ReturnAtoms \cup AbsentAtoms
            \cup NullAtoms \cup FunctionAtoms

\* what follows the statement under test: `let marker = 1; 7`
Trailer == <<LetStatement("marker", LiteralInt(I64(1))), Stmt(LiteralInt(I64(7)))>>

\* one atom in every position an expression can have
OperatorPrograms ==
    {<<Stmt(PrefixExpression(p, a))>> \o Trailer : p \in Prefixes, a \in Atoms}
    \cup {<<Stmt(PrefixExpression("Not", PrefixExpression("Not", a)))>> \o Trailer :
            a \in Atoms}
    \cup {<<Stmt(InfixExpression(i, a, b))>> \o Trailer :
            i \in Infixes, a \in Atoms, b \in Atoms}

PositionPrograms ==
    {<<Stmt(IfExpression(a, <<Stmt(LiteralInt(I64(1)))>>, Some(<<Stmt(LiteralInt(I64(2)))>>)))>>
        \o Trailer : a \in Atoms}
    \cup {<<Stmt(IfExpression(a, <<Stmt(LiteralInt(I64(1)))>>, None))>> \o Trailer :
            a \in Atoms}
    \cup {<<LetStatement("v", a), Stmt(Identifier("v"))>> \o Trailer : a \in Atoms}
    \cup {<<ReturnStatement(a)>> \o Trailer : a \in Atoms}
    \cup {<<Stmt(CallExpression(a, <<LiteralInt(I64(1))>>))>> \o Trailer : a \in Atoms}
    \cup {<<Stmt(CallExpression(FunctionExpression(<<"x">>, <<Stmt(LiteralInt(I64(1)))>>),
                                <<a>>))>> \o Trailer : a \in Atoms}


\* parameter names and argument expressions of a call
Names == <<"x", "y", "z", "w", "u">>
Params(n) == SubSeq(Names, 1, n)
Args(m) == [i \in 1..m |-> LiteralInt(I64(i))]

\* a function of n parameters called with m arguments; its body binds a name
ArityPrograms ==
    {<<LetStatement("f", FunctionExpression(Params(n),
            <<LetStatement("inner", LiteralInt(I64(1))), Stmt(LiteralInt(I64(5)))>>)),
       Stmt(CallExpression(Identifier("f"), Args(m)))>> \o Trailer :
        n \in 0..MaxParams, m \in 0..(MaxParams + 1)}

\* `return a` under d if-expressions, each followed by another return
RECURSIVE NestedReturn(_, _)
NestedReturn(d, a) ==
    IF d = 0 THEN <<ReturnStatement(a), Stmt(LiteralInt(I64(8)))>>
    ELSE <<Stmt(Then(NestedReturn(d - 1, a))), ReturnStatement(LiteralInt(I64(9)))>>

ReturnPrograms ==
    {NestedReturn(d, a) \o Trailer : d \in 0..MaxDepth, a \in IntAtoms \cup BoolAtoms}
    \cup {<<LetStatement("f", Fn0(NestedReturn(d, a))), Stmt(Call0(Identifier("f")))>>
            \o Trailer : d \in 0..MaxDepth, a \in IntAtoms \cup BoolAtoms}
    \cup {<<LetStatement("f", Fn0(NestedReturn(d, a))),
            Stmt(InfixExpression("Plus", Call0(Identifier("f")), LiteralInt(I64(1))))>>
            \o Trailer : d \in 0..MaxDepth, a \in IntAtoms}
    \cup {<<LetStatement("f", Fn0(NestedReturn(d, a))),
            ReturnStatement(Call0(Identifier("f")))>>
            \o Trailer : d \in 0..MaxDepth, a \in IntAtoms}

\* the bodies of a one-parameter function: every way a body can end
Bodies ==
    {<<Stmt(Identifier("x"))>>,
     <<ReturnStatement(Identifier("x")), Stmt(LiteralInt(I64(9)))>>,
     <<Stmt(Identifier("foobar")), Stmt(LiteralInt(I64(9)))>>,
     <<>>,
     <<LetStatement("x", LiteralInt(I64(2))), LetStatement("marker", LiteralInt(I64(3))),
       Stmt(Identifier("x"))>>,
     <<Stmt(Then(<<ReturnStatement(Identifier("x"))>>)), Stmt(LiteralInt(I64(9)))>>}

FnName(k) == "f" \o ToString(k)

\* let f1 = fn(x) { f0(x) }; ... let fd = fn(x) { fd-1(x) };
RECURSIVE Wrappers(_, _)
Wrappers(k, d) ==
    IF k > d THEN <<>>
    ELSE <<LetStatement(FnName(k), FunctionExpression(<<"x">>,
                <<Stmt(CallExpression(Identifier(FnName(k - 1)), <<Identifier("x")>>))>>))>>
         \o Wrappers(k + 1, d)

\* a call that reaches the body at nesting depth d + 1
CallPrograms ==
    {<<LetStatement("f0", FunctionExpression(<<"x">>, body))>> \o Wrappers(1, d)
        \o <<Stmt(CallExpression(Identifier(FnName(d)), <<a>>))>> \o Trailer :
        body \in Bodies, d \in 0..MaxDepth, a \in IntAtoms}

\* closures: the defining scope, the caller's scope and the call frame differ
ClosurePrograms ==
    {<<LetStatement("newAdder", FunctionExpression(<<"x">>,
            <<Stmt(FunctionExpression(<<"y">>,
                <<Stmt(InfixExpression("Plus", Identifier("x"), Identifier("y")))>>))>>)),
       LetStatement("addTwo", CallExpression(Identifier("newAdder"), <<a>>)),
       Stmt(CallExpression(Identifier("addTwo"), <<b>>))>> :
        a \in IntAtoms, b \in IntAtoms}
    \cup {<<LetStatement("x", a),
            LetStatement("f", Fn0(<<Stmt(Identifier("x"))>>)),
            LetStatement("g", FunctionExpression(<<"x">>,
                <<Stmt(Call0(Identifier("f")))>>)),
            Stmt(CallExpression(Identifier("g"), <<b>>))>> :
            a \in IntAtoms, b \in IntAtoms}
    \cup {<<LetStatement("f", FunctionExpression(<<"x", "y">>,
                <<Stmt(InfixExpression("Minus", Identifier("x"), Identifier("y")))>>)),
            Stmt(CallExpression(Identifier("f"), <<a, b>>))>> :
            a \in IntAtoms, b \in IntAtoms}

\* several operator applications in one program, the failing one last
SequencePrograms ==
    {<<Stmt(InfixExpression(i, a, b)), Stmt(PrefixExpression("Minus", n)),
       Stmt(PrefixExpression("Minus", c))>> \o Trailer :
        i \in {"Equal", "NotEqual"}, a \in BoolAtoms, b \in BoolAtoms,
        n \in IntAtoms, c \in BoolAtoms \cup FunctionAtoms}

\* a parameter, or a let of the body, has the name of a top-level binding
ShadowPrograms ==
    {<<LetStatement("x", a),
       LetStatement("g", FunctionExpression(<<"x">>, <<Stmt(Identifier("x"))>>)),
       Stmt(CallExpression(Identifier("g"), <<b>>)),
       Stmt(Identifier("x"))>> : a \in IntAtoms, b \in IntAtoms}
    \cup {<<LetStatement("x", a),
            LetStatement("h", Fn0(<<LetStatement("x", b), Stmt(Identifier("x"))>>)),
            Stmt(Call0(Identifier("h"))),
            Stmt(Identifier("x"))>> : a \in IntAtoms, b \in IntAtoms}

\* let f = fn() { late }; let late = a; f()
LatePrograms ==
    {<<LetStatement("f", Fn0(<<Stmt(Identifier("late"))>>)),
       LetStatement("late", a),
       Stmt(Call0(Identifier("f")))>> : a \in IntAtoms}

\* let v = a; let f = fn() { v }; let v = b; f()
RebindPrograms ==
    {<<LetStatement("v", a),
       LetStatement("f", Fn0(<<Stmt(Identifier("v"))>>)),
       LetStatement("v", b),
       Stmt(Call0(Identifier("f")))>> : a \in IntAtoms, b \in IntAtoms}

\* let sum = fn(n) { if (n == 0) { 0 } else { n + sum(n - 1) } }; sum(k)
SumFunction ==
    FunctionExpression(<<"n">>,
        <<Stmt(IfExpression(InfixExpression("Equal", Identifier("n"), LiteralInt(I64(0))),
            <<Stmt(LiteralInt(I64(0)))>>,
            Some(<<Stmt(InfixExpression("Plus", Identifier("n"),
                    CallExpression(Identifier("sum"),
                        <<InfixExpression("Minus", Identifier("n"),
                                          LiteralInt(I64(1)))>>)))>>)))>>)

RecursionPrograms ==
    {<<LetStatement("sum", SumFunction),
       Stmt(CallExpression(Identifier("sum"), <<LiteralInt(I64(k))>>))>> : k \in 0..MaxDepth}

\* let f = fn(x, y) { x - y }; f(f(a, 0), b): an argument that is a call
NestedCallPrograms ==
    {<<LetStatement("f", FunctionExpression(<<"x", "y">>,
            <<Stmt(InfixExpression("Minus", Identifier("x"), Identifier("y")))>>)),
       Stmt(CallExpression(Identifier("f"),
            <<CallExpression(Identifier("f"), <<a, LiteralInt(I64(0))>>), b>>))>> :
        a \in IntAtoms, b \in IntAtoms}

\* `let v = 1; let w = 2; let v = a; v`, at the top level and in a function
LetPrograms ==
    {<<LetStatement("v", LiteralInt(I64(1))), LetStatement("w", LiteralInt(I64(2))),
       LetStatement("v", a), Stmt(Identifier("v"))>> : a \in Atoms}
    \cup {<<LetStatement("v", LiteralInt(I64(1))),
            Stmt(Call0(Fn0(<<LetStatement("w", LiteralInt(I64(2))), LetStatement("w", a),
                             LetStatement("v", a), Stmt(Identifier("w"))>>))),
            Stmt(Identifier("v"))>> : a \in Atoms}

\* `if (c) { let branch = n } else { let branch = m }; branch`
IfLet(c, n, m) ==
    <<Stmt(IfExpression(LiteralBool(c), <<LetStatement("branch", LiteralInt(I64(n)))>>,
                        Some(<<LetStatement("branch", LiteralInt(I64(m)))>>))),
      Stmt(Identifier("branch"))>>

\* the same at the top level, and as the body of a function that is called
\* and followed by `branch`
IfLetTop(c, n, m) == IfLet(c, n, m)
IfLetCall(c, n, m) == <<Stmt(Call0(Fn0(IfLet(c, n, m)))), Stmt(Identifier("branch"))>>

IfLetPrograms ==
    {IfLetTop(c, n, m) : c \in BOOLEAN, n \in Ints, m \in Ints}
    \cup {IfLetCall(c, n, m) : c \in BOOLEAN, n \in Ints, m \in Ints}

\* programs whose integers leave i64: 9223372036854775807 is the largest
\* literal, and the least i64 is computed as 0 - 9223372036854775807 - 1
Largest == LiteralInt(MaxI64)
Least ==
    InfixExpression("Minus", InfixExpression("Minus", LiteralInt(I64(0)), Largest),
                    LiteralInt(I64(1)))

OverflowPrograms ==
    {<<Stmt(PrefixExpression("Minus", Least))>> \o Trailer,
     <<Stmt(PrefixExpression("Minus", Largest))>> \o Trailer,
     <<Stmt(InfixExpression("Divide", Least,
                InfixExpression("Minus", LiteralInt(I64(0)), LiteralInt(I64(1)))))>>
        \o Trailer,
     <<Stmt(InfixExpression("Plus", Largest, LiteralInt(I64(1))))>> \o Trailer,
     <<Stmt(InfixExpression("Minus", Least, LiteralInt(I64(1))))>> \o Trailer,
     <<Stmt(InfixExpression("Multiply", Largest, LiteralInt(I64(2))))>> \o Trailer}

Programs == OperatorPrograms \cup PositionPrograms \cup ArityPrograms
                \cup ReturnPrograms \cup CallPrograms \cup ClosurePrograms
                \cup SequencePrograms \cup ShadowPrograms \cup LatePrograms
                \cup RebindPrograms \cup RecursionPrograms \cup NestedCallPrograms
                \cup LetPrograms \cup IfLetPrograms \cup OverflowPrograms

----------------------------------------------------------------------------
(* The lines the parser is run on, as the token sequences the lexer makes  *)
(* of them.                                                                *)

InfixKinds == InfixTokens \cup {"LessThanEqual", "GreaterThanEqual"}
PrefixKinds == {"Bang", "Minus"}

Triples == {<<TokenIdent("a"), TokenIdent("b"), TokenIdent("c")>>,
            <<TokenInt(I64(1)), TokenInt(I64(2)), TokenInt(I64(3))>>}

\* x op1 y op2 z
ChainLines ==
    {<<t[1], Token(o1), t[2], Token(o2), t[3]>> :
        o1 \in InfixTokens, o2 \in InfixTokens, t \in Triples}

\* x op1 (y op2 z) and (x op1 y) op2 z
GroupLines ==
    {<<TokenInt(I64(1)), Token(o1), Token("Lparen"), TokenInt(I64(2)), Token(o2), TokenInt(I64(3)),
       Token("Rparen")>> : o1 \in InfixTokens, o2 \in InfixTokens}
    \cup {<<Token("Lparen"), TokenInt(I64(1)), Token(o1), TokenInt(I64(2)), Token("Rparen"),
            Token(o2), TokenInt(I64(3))>> : o1 \in InfixTokens, o2 \in InfixTokens}

\* pre x op y, x op pre y and pre pre x
PrefixLines ==
    {<<Token(pre), TokenInt(I64(1)), Token(o), TokenInt(I64(2))>> :
        pre \in PrefixKinds, o \in InfixTokens}
    \cup {<<TokenInt(I64(1)), Token(o), Token(pre), TokenInt(I64(2))>> :
            pre \in PrefixKinds, o \in InfixTokens}
    \cup {<<Token(pre), Token(inner), TokenIdent("a")>> :
            pre \in PrefixKinds, inner \in PrefixKinds}

\* pre f(x), f(x) op y, x op f(y) and f(x op y, z)
CallLines ==
    {<<Token(pre), TokenIdent("f"), Token("Lparen"), TokenInt(I64(1)), Token("Rparen")>> :
        pre \in PrefixKinds}
    \cup {<<TokenIdent("f"), Token("Lparen"), TokenInt(I64(1)), Token("Rparen"), Token(o),
            TokenInt(I64(2))>> : o \in InfixTokens}
    \cup {<<TokenInt(I64(1)), Token(o), TokenIdent("f"), Token("Lparen"), TokenInt(I64(2)),
            Token("Rparen")>> : o \in InfixTokens}
    \cup {<<TokenIdent("f"), Token("Lparen"), TokenInt(I64(1)), Token(o), TokenInt(I64(2)),
            Token("Comma"), TokenInt(I64(3)), Token("Rparen")>> : o \in InfixTokens}

\* operands that are no infix expressions, as tokens and as the expression
\* they stand for: n, true, x, -1, !true, (1) and f(1)
Operands ==
    {[tokens |-> <<TokenInt(I64(n))>>, expression |-> LiteralInt(I64(n))] : n \in 1..MaxInt}
    \cup {[tokens |-> <<TokenBool(TRUE)>>, expression |-> LiteralBool(TRUE)],
           [tokens |-> <<TokenIdent("x")>>, expression |-> Identifier("x")],
           [tokens |-> <<Token("Minus"), TokenInt(I64(1))>>,
            expression |-> PrefixExpression("Minus", LiteralInt(I64(1)))],
           [tokens |-> <<Token("Bang"), TokenBool(TRUE)>>,
            expression |-> PrefixExpression("Not", LiteralBool(TRUE))],
           [tokens |-> <<Token("Lparen"), TokenInt(I64(1)), Token("Rparen")>>,
            expression |-> LiteralInt(I64(1))],
           [tokens |-> <<TokenIdent("f"), Token("Lparen"), TokenInt(I64(1)), Token("Rparen")>>,
            expression |-> CallExpression(Identifier("f"), <<LiteralInt(I64(1))>>)]}
Endings == {<<>>, <<Token("Semicolon")>>}

\* a op b, with and without a closing `;`
OperatorLines ==
    {a.tokens \o <<Token(o)>> \o b.tokens \o end :
        a \in Operands, o \in InfixKinds, b \in Operands, end \in Endings}

\* what may stand where the `=` of a let is expected
AfterIdentifier ==
    {TokenInt(I64(5)), TokenIdent("y"), TokenBool(TRUE), Token("Semicolon"), Token("Equal"),
     Token("Plus"), Token("Minus"), Token("Bang"), Token("Lparen"), Token("Rparen"),
     Token("Lbrace"), Token("Rbrace"), Token("Comma"), Token("Let"), Token("Return"),
     Token("If"), Token("Function"), Token("Else"), Token("Illegal"),
     Token("LessThanEqual")}

Rests == {<<>>, <<Token("Semicolon")>>, <<Token("Semicolon"), TokenInt(I64(7))>>,
          <<Token("Minus"), TokenInt(I64(1))>>, <<Token("Assign"), TokenInt(I64(5))>>}

\* statements that follow a let or a return on the same line, as their tokens
\* and as the Statement they stand for: x, -1, !true and (1)
Following ==
    {[tokens |-> <<TokenIdent("x")>>, statement |-> Stmt(Identifier("x"))],
     [tokens |-> <<Token("Minus"), TokenInt(I64(1))>>,
      statement |-> Stmt(PrefixExpression("Minus", LiteralInt(I64(1))))],
     [tokens |-> <<Token("Bang"), TokenBool(TRUE)>>,
      statement |-> Stmt(PrefixExpression("Not", LiteralBool(TRUE)))],
     [tokens |-> <<Token("Lparen"), TokenInt(I64(1)), Token("Rparen")>>,
      statement |-> Stmt(LiteralInt(I64(1)))]}

\* return n and return n; with and without a statement after it
ReturnLines ==
    {<<Token("Return"), TokenInt(I64(n))>> \o end \o rest :
        n \in 1..MaxInt, end \in Endings,
        rest \in {<<>>} \cup {s.tokens : s \in Following}}

\* let x <something else than `=`> ..., before and after another statement
LetLines ==
    {<<Token("Let"), TokenIdent("x"), t>> \o rest : t \in AfterIdentifier, rest \in Rests}
    \cup {<<Token("Let"), TokenIdent("x")>>}
    \cup {<<TokenInt(I64(1)), Token("Semicolon"), Token("Let"), TokenIdent("x"), t,
            Token("Semicolon")>> : t \in AfterIdentifier}
    \cup {<<Token("Let"), TokenIdent("x"), Token("Assign"), TokenInt(I64(n))>> \o end \o rest :
            n \in 1..MaxInt, end \in Endings,
            rest \in {<<>>} \cup {s.tokens : s \in Following}}
    \cup {<<Token("Let"), t, Token("Assign"), TokenInt(I64(1))>> : t \in AfterIdentifier}

\* the statements of a block, as their tokens and as the Vec they stand for:
\* nothing, `1`, `x; 1`, `let a = 1; a` and `return 1;`
Blocks ==
    {[tokens |-> <<>>, statements |-> <<>>],
     [tokens |-> <<TokenInt(I64(1))>>, statements |-> <<Stmt(LiteralInt(I64(1)))>>],
     [tokens |-> <<TokenIdent("x"), Token("Semicolon"), TokenInt(I64(1))>>,
      statements |-> <<Stmt(Identifier("x")), Stmt(LiteralInt(I64(1)))>>],
     [tokens |-> <<Token("Let"), TokenIdent("a"), Token("Assign"), TokenInt(I64(1)),
                   Token("Semicolon"), TokenIdent("a")>>,
      statements |-> <<LetStatement("a", LiteralInt(I64(1))), Stmt(Identifier("a"))>>],
     [tokens |-> <<Token("Return"), TokenInt(I64(1)), Token("Semicolon")>>,
      statements |-> <<ReturnStatement(LiteralInt(I64(1)))>>]}

\* what stands before a block: `if (true) {`, `if (false) { 2 } else {` and
\* `fn(x) {`
IfHead == <<Token("If"), Token("Lparen"), TokenBool(TRUE), Token("Rparen"),
            Token("Lbrace")>>
ElseHead == <<Token("If"), Token("Lparen"), TokenBool(FALSE), Token("Rparen"),
              Token("Lbrace"), TokenInt(I64(2)), Token("Rbrace"), Token("Else"),
              Token("Lbrace")>>
FnHead == <<Token("Function"), Token("Lparen"), TokenIdent("x"), Token("Rparen"),
            Token("Lbrace")>>

\* a block as the last thing of the line, closed by `}` and left open
BlockLines ==
    {head \o b.tokens \o close :
        head \in {IfHead, ElseHead, FnHead}, b \in Blocks,
        close \in {<<>>, <<Token("Rbrace")>>}}

\* lines with blocks, functions, calls and returns
StatementLines ==
    {\* let f = fn(x) { x; }; f(1)
     <<Token("Let"), TokenIdent("f"), Token("Assign"), Token("Function"),
       Token("Lparen"), TokenIdent("x"), Token("Rparen"), Token("Lbrace"),
       TokenIdent("x"), Token("Semicolon"), Token("Rbrace"), Token("Semicolon"),
       TokenIdent("f"), Token("Lparen"), TokenInt(I64(1)), Token("Rparen")>>,
     \* fn(x, y) { x + y }(1, 2)
     <<Token("Function"), Token("Lparen"), TokenIdent("x"), Token("Comma"),
       TokenIdent("y"), Token("Rparen"), Token("Lbrace"), TokenIdent("x"),
       Token("Plus"), TokenIdent("y"), Token("Rbrace"), Token("Lparen"),
       TokenInt(I64(1)), Token("Comma"), TokenInt(I64(2)), Token("Rparen")>>,
     \* if (1 < 2) { 1 } else { 2 }
     <<Token("If"), Token("Lparen"), TokenInt(I64(1)), Token("LessThan"), TokenInt(I64(2)),
       Token("Rparen"), Token("Lbrace"), TokenInt(I64(1)), Token("Rbrace"), Token("Else"),
       Token("Lbrace"), TokenInt(I64(2)), Token("Rbrace")>>,
     \* if (false) { return 1; }
     <<Token("If"), Token("Lparen"), TokenBool(FALSE), Token("Rparen"),
       Token("Lbrace"), Token("Return"), TokenInt(I64(1)), Token("Semicolon"),
       Token("Rbrace")>>,
     \* return 1; 2
     <<Token("Return"), TokenInt(I64(1)), Token("Semicolon"), TokenInt(I64(2))>>,
     \* fn() { }()
     <<Token("Function"), Token("Lparen"), Token("Rparen"), Token("Lbrace"),
       Token("Rbrace"), Token("Lparen"), Token("Rparen")>>,
     \* if (true) { 1
     <<Token("If"), Token("Lparen"), TokenBool(TRUE), Token("Rparen"),
       Token("Lbrace"), TokenInt(I64(1))>>,
     \* fn(1) { }
     <<Token("Function"), Token("Lparen"), TokenInt(I64(1)), Token("Rparen"),
       Token("Lbrace"), Token("Rbrace")>>,
     \* if 1
     <<Token("If"), TokenInt(I64(1))>>,
     \* ; - 1
     <<Token("Semicolon"), Token("Minus"), TokenInt(I64(1))>>,
     \* ) (
     <<Token("Rparen"), Token("Lparen")>>,
     <<>>}

Lines == ChainLines \cup GroupLines \cup PrefixLines \cup CallLines
            \cup OperatorLines \cup LetLines \cup ReturnLines \cup BlockLines
            \cup StatementLines

\* lines of a session, as their tokens and as the source text:
\* `let x = 1`, `let x = 2`, `x`, `let x = 2; let y 5`,
\* `let f = fn() { x }` and `f()`
LetX(n) == <<Token("Let"), TokenIdent("x"), Token("Assign"), TokenInt(I64(n))>>
ReadX == <<TokenIdent("x")>>
LetXThenError ==
    LetX(2) \o <<Token("Semicolon"), Token("Let"), TokenIdent("y"), TokenInt(I64(5))>>
LetF == <<Token("Let"), TokenIdent("f"), Token("Assign"), Token("Function"),
          Token("Lparen"), Token("Rparen"), Token("Lbrace"), TokenIdent("x"),
          Token("Rbrace")>>
CallF == <<TokenIdent("f"), Token("Lparen"), Token("Rparen")>>
SessionLines == {LetX(1), LetX(2), ReadX, LetXThenError, LetF, CallF}

\* what is typed: one line, or two or three lines of a session
Sessions ==
    {<<line>> : line \in Lines}
    \cup {<<a, b>> : a \in SessionLines, b \in SessionLines}
    \cup {<<a, b, c>> : a \in SessionLines, b \in SessionLines, c \in SessionLines}

----------------------------------------------------------------------------
(* Parser::parse_program, lines 119-132, and main.rs, lines 22-41          *)

\* one turn of the loop of parse_program: a statement, then next_token
parse_program_while ==
    /\ status = "parsing"
    /\ ~cur_token_is(parser, Token("Eof"))
    /\ LET statement == parse_statement(parser)
       IN  IF statement.parser.panicked
           THEN /\ parser' = statement.parser
                /\ status' = "panic"
                /\ UNCHANGED program
           ELSE /\ parser' = next_token(statement.parser)
                /\ program' = IF statement.node.some
                              THEN Append(program, statement.node.obj)
                              ELSE program
                /\ UNCHANGED status
    /\ UNCHANGED <<overflow_checks, rl, stack, ret, heap, environment, output, history>>

\* main.rs, lines 23-27: readline returns the next line that was typed and
\* a Parser is made over its Lexer; without a line, readline waits
main_readline ==
    /\ status \in {"reading", "rejected", "done"}
    /\ rl.position < Len(rl.lines)
    /\ rl' = [rl EXCEPT !.position = @ + 1]
    /\ parser' = ParserNew(LexerNew(rl.lines[rl.position + 1]))
    /\ program' = <<>>
    /\ status' = "parsing"
    /\ UNCHANGED <<overflow_checks, stack, ret, heap, environment, output, history>>

\* only a line with two or more errors is discarded
errors_found_many(errors) == Len(errors) > 1

\* main.rs, line 31
errors_found(errors) == Len(errors) > 0

\* main.rs, lines 29-37: parse_program has returned with errors; they are
\* printed and the line is not evaluated
main_errors ==
    /\ status = "parsing"
    /\ cur_token_is(parser, Token("Eof"))
    /\ errors_found(parser.errors)
    /\ status' = "rejected"
    /\ UNCHANGED <<overflow_checks, rl, parser, program, stack, ret, heap, environment, output, history>>

\* every line is evaluated in a fresh top-level Environment
main_eval_fresh ==
    /\ status = "parsing"
    /\ cur_token_is(parser, Token("Eof"))
    /\ ~errors_found(parser.errors)
    /\ status' = "running"
    /\ stack' = <<FrameEval(program)>>
    /\ heap' = [heap EXCEPT ![environment] = EnvironmentNew]
    /\ UNCHANGED <<overflow_checks, rl, parser, program, ret, environment, output, history>>

\* main.rs, line 39: parse_program has returned without errors;
\* evaluator.eval(program)
main_eval ==
    /\ status = "parsing"
    /\ cur_token_is(parser, Token("Eof"))
    /\ ~errors_found(parser.errors)
    /\ status' = "running"
    /\ stack' = <<FrameEval(program)>>
    /\ UNCHANGED <<overflow_checks, rl, parser, program, ret, heap, environment, output, history>>

----------------------------------------------------------------------------
(* Evaluator::new over a fresh Environment; then either eval(program) on a *)
(* Program, or the loop of main.rs over the lines that are typed           *)

\* the Editor before the first readline
Editor(lines) == [lines |-> lines, position |-> 0]

TopLevel == 1

Init ==
    /\ overflow_checks \in BOOLEAN
    /\ ret = None
    /\ heap = <<EnvironmentNew>>
    /\ environment = TopLevel
    /\ output = None
    /\ history = <<>>
    /\ parser = ParserNew(LexerNew(<<>>))
    /\ \/ /\ program \in Programs
          /\ rl = Editor(<<>>)
          /\ stack = <<FrameEval(program)>>
          /\ status = "running"
       \/ /\ rl \in {Editor(lines) : lines \in Sessions}
          /\ program = <<>>
          /\ stack = <<>>
          /\ status = "reading"

Next ==
    \/ main_readline
    \/ parse_program_while
    \/ main_errors
    \/ main_eval
    \/ eval_for
    \/ eval_match
    \/ eval_block_statement_for
    \/ eval_block_statement_match
    \/ eval_statement_start
    \/ eval_statement_let
    \/ eval_statement_expression
    \/ eval_statement_return
    \/ eval_expression_identifier
    \/ eval_expression_literal
    \/ eval_expression_prefix
    \/ eval_expression_prefix_right
    \/ eval_expression_infix
    \/ eval_expression_infix_left
    \/ eval_expression_infix_right
    \/ eval_expression_if
    \/ eval_expression_if_value
    \/ eval_expression_function
    \/ eval_expression_call
    \/ eval_expression_call_value
    \/ eval_if_expression_start
    \/ eval_if_expression_condition
    \/ eval_if_expression_block
    \/ eval_call_expression_arguments
    \/ eval_call_expression_argument
    \/ eval_call_expression_function
    \/ eval_call_expression_body

Spec == Init /\ [][Next]_vars


----------------------------------------------------------------------------
(* Properties.                                                             *)

Events == 1..Len(history)
Happened(ev) == history /= <<>> /\ history[Len(history)].ev = ev
Latest == history[Len(history)]

\* the i-th observation is an evaluation of an expression to an Error
YieldsError(i) ==
    /\ history[i].ev = "value"
    /\ history[i].value.some
    /\ is_error(history[i].value.obj)

\* C1: once the evaluation of any expression has yielded an Error, no further
\* statement is evaluated and eval returns that very Error.
C1_ErrorPropagatesUnchanged ==
    \A i \in Events :
        YieldsError(i) =>
            /\ \A j \in Events : j > i => history[j].ev /= "statement"
            /\ status = "done" => output = Some(history[i].value.obj)

\* C2: no binding of any Environment holds a ReturnValue or an Error.
C2_NoCarrierBound ==
    \A address \in 1..Len(heap) :
        \A i \in 1..Len(heap[address].store) :
            heap[address].store[i][2].type \notin {"ReturnValue", "Error"}


\* the observation of the call frame whose environment is `address`
FrameOf(address) ==
    history[CHOOSE i \in Events : history[i].ev = "frame" /\ history[i].env = address]

Distinct(names, k) == \A l \in (k + 1)..Len(names) : names[l] /= names[k]

\* C3: a call frame's environment is a new one whose outer environment is the
\* one captured by the function; it binds each parameter to the argument at
\* the same position; a name the frame does not bind resolves as it does in
\* the captured environment; newAdder(a) yields a function that adds a.
C3_LexicalScoping ==
    /\ \A i \in Events :
        history[i].ev = "frame" =>
            /\ heap[history[i].env].outer = history[i].function.env
            /\ history[i].env /= history[i].caller
            /\ \A j \in Events :
                (j < i /\ history[j].ev = "frame") => history[j].env /= history[i].env
    /\ Happened("frame") =>
        /\ environment = Latest.env
        /\ \A k \in 1..Len(Latest.function.parameters) :
            Distinct(Latest.function.parameters, k) =>
                EnvironmentGet(heap, environment, Latest.function.parameters[k])
                    = Some(Latest.objects[k])
    /\ (/\ Happened("value")
        /\ Latest.expression.kind = "Identifier"
        /\ Latest.env /= TopLevel
        /\ ~Bound(heap[Latest.env].store, Latest.expression.name)) =>
            LET found == EnvironmentGet(heap, FrameOf(Latest.env).function.env,
                                        Latest.expression.name)
            IN  IF found.some THEN Latest.value = found
                ELSE Latest.value = Some(ObjectError("identifier not found: "
                                                    \o Latest.expression.name))
    /\ \A a \in Ints, b \in Ints :
        (/\ status = "done"
         /\ Len(program) = 3
         /\ program[1] = LetStatement("newAdder", FunctionExpression(<<"x">>,
                <<Stmt(FunctionExpression(<<"y">>,
                    <<Stmt(InfixExpression("Plus", Identifier("x"),
                                           Identifier("y")))>>))>>))
         /\ program[2] = LetStatement("addTwo",
                CallExpression(Identifier("newAdder"), <<LiteralInt(I64(a))>>))
         /\ program[3] = Stmt(CallExpression(Identifier("addTwo"), <<LiteralInt(I64(b))>>)))
            => output = Some(ObjectInt(I64(a + b)))

\* a free name has just been resolved in a frame whose caller binds the same
\* name to another value than the defining scope does
C3_Witness ==
    /\ Happened("value")
    /\ Latest.expression.kind = "Identifier"
    /\ Latest.env /= TopLevel
    /\ ~Bound(heap[Latest.env].store, Latest.expression.name)
    /\ LET frame == FrameOf(Latest.env)
           here == EnvironmentGet(heap, frame.caller, Latest.expression.name)
       IN  /\ frame.caller /= frame.function.env
           /\ here.some
           /\ Latest.value.obj.type = "Int"
           /\ here /= Latest.value

\* C4: when a call expression has returned, the active environment is the
\* one that was active when its evaluation began.
C4_EnvironmentRestored ==
    Happened("returned") => environment = Latest.entered_in

\* a call made inside a function body has returned a wrapped ReturnValue
C4_Witness ==
    /\ Happened("returned")
    /\ Latest.frame /= NoOuter
    /\ Latest.depth >= 1
    /\ Latest.entered_in /= TopLevel
    /\ Latest.object.type = "ReturnValue"

\* the i-th observation is a `return e` whose e had a non-error value
Returns(i) ==
    /\ history[i].ev = "return"
    /\ history[i].value.obj.type = "ReturnValue"

\* C5: after a `return e` no further statement of the enclosing function
\* body or program is evaluated; outside any function the program's result
\* is the value of e, inside a function the call yields the value of e.
C5_EarlyReturn ==
    \A i \in Events :
        Returns(i) =>
            /\ \A j \in Events :
                (j > i /\ history[j].ev = "statement") =>
                    history[j].env /= history[i].env
            /\ (history[i].depth = 0 /\ status = "done") =>
                    output = Some(history[i].value.obj.value)
            /\ \A j \in Events :
                (j > i /\ history[j].ev = "returned"
                       /\ history[j].frame = history[i].env) =>
                    history[j].object \in {history[i].value.obj,
                                           history[i].value.obj.value}

\* the i-th observation is the return of a call whose body executed a return
ReturnedBy(i, r) ==
    /\ history[i].ev = "returned"
    /\ r < i
    /\ Returns(r)
    /\ history[r].env = history[i].frame

\* C6: a call whose body executed `return e` yields the value of e, not a
\* ReturnValue, and the program goes on after the call: unless the program
\* ends in an Error or a top-level return, its last statement is evaluated.
C6_ReturnEndsOnlyTheCall ==
    \A i \in Events : \A r \in Events :
        ReturnedBy(i, r) =>
            /\ history[i].object = history[r].value.obj.value
            /\ (/\ status = "done"
                /\ output.some => ~is_error(output.obj)
                /\ \A j \in Events : history[j].ev = "return" => history[j].depth > 0)
                => \E j \in Events :
                        /\ history[j].ev = "statement"
                        /\ history[j].statement = program[Len(program)]

\* C7: eval never returns a ReturnValue.
C7_OutputUnwrapped ==
    (status = "done" /\ output.some) => output.obj.type /= "ReturnValue"

\* C8: a function called with a number of arguments other than its number of
\* parameters: the call returns the arity Error at once; no environment is
\* created, the active environment stays, no body is entered.
C8_ArityCheck ==
    [][(/\ At("eval_call_expression", "function")
        /\ ret.some
        /\ ret.obj.type = "Function"
        /\ Len(ret.obj.parameters) /= Len(Top.objects)) =>
            /\ ret' = ObjectError("wrong number of arguments: "
                        \o ToString(Len(ret.obj.parameters)) \o " expected but "
                        \o ToString(Len(Top.objects)) \o " given")
            /\ stack' = Callers
            /\ heap' = heap
            /\ environment' = environment]_vars

\* a call with more arguments than parameters has returned
C8_Witness ==
    /\ Happened("returned")
    /\ Latest.function.some
    /\ Latest.function.obj.type = "Function"
    /\ Len(Latest.objects) > Len(Latest.function.obj.parameters)
    /\ Latest.object.type = "Error"

Message(kind, left, infix, right) ==
    ObjectError(kind \o ": " \o ObjectDisplay(left) \o " " \o InfixDisplay(infix)
                \o " " \o ObjectDisplay(right))

Values == {"Int", "Bool", "Function", "Null"}

\* C9 as stated: operands that are neither Int/Int nor Bool/Bool, each an
\* Int, Bool, Function or Null, give the type-mismatch Error.
C9_TypeMismatch ==
    \A i \in Events :
        (/\ history[i].ev = "infix"
         /\ history[i].left.type \in Values
         /\ history[i].right.type \in Values
         /\ ~(history[i].left.type = "Int" /\ history[i].right.type = "Int")
         /\ ~(history[i].left.type = "Bool" /\ history[i].right.type = "Bool")) =>
            history[i].object = Message("type mismatch", history[i].left,
                                        history[i].infix, history[i].right)

\* C9 amended: an Int on the left with a non-Int on the right, or a Bool on
\* the left with a non-Bool on the right, gives the type-mismatch Error; a
\* left operand that is neither Int nor Bool gives the unknown-operator Error.
C9_TypeMismatchByLeft ==
    \A i \in Events :
        history[i].ev = "infix" =>
            /\ (history[i].left.type \in {"Int", "Bool"}
                    /\ history[i].right.type /= history[i].left.type) =>
                history[i].object = Message("type mismatch", history[i].left,
                                            history[i].infix, history[i].right)
            /\ history[i].left.type \notin {"Int", "Bool"} =>
                history[i].object = Message("unknown operator", history[i].left,
                                            history[i].infix, history[i].right)

\* an operator has been applied to a Function on the left and an Int on the right
C9_Witness ==
    \E i \in Events :
        /\ history[i].ev = "infix"
        /\ history[i].left.type = "Function"
        /\ history[i].right.type = "Int"
        /\ history[i].object.type = "Error"

\* C10: on two booleans == and != compare, every other infix operator gives
\* the unknown-operator Error; unary minus on Int(v) yields Int(-v), the Int
\* that added to v gives 0, and gives the unknown-operator Error on
\* anything else.
C10_UnknownOperator ==
    \A i \in Events :
        /\ (/\ history[i].ev = "infix"
            /\ history[i].left.type = "Bool"
            /\ history[i].right.type = "Bool") =>
                history[i].object =
                    CASE history[i].infix = "Equal" ->
                            ObjectBool(history[i].left.bool <=> history[i].right.bool)
                      [] history[i].infix = "NotEqual" ->
                            ObjectBool(~(history[i].left.bool <=> history[i].right.bool))
                      [] OTHER ->
                            ObjectError("unknown operator: "
                                \o BoolDisplay(history[i].left.bool) \o " "
                                \o InfixDisplay(history[i].infix) \o " "
                                \o BoolDisplay(history[i].right.bool))
        /\ (history[i].ev = "prefix" /\ history[i].prefix = "Minus") =>
                IF history[i].right.type = "Int"
                THEN /\ history[i].object.type = "Int"
                     /\ Sum(history[i].object.int, history[i].right.int) = I64(0)
                ELSE history[i].object = ObjectError("unknown operator: -"
                                            \o ObjectDisplay(history[i].right))

\* C11 as stated: a callee expression that does not evaluate to a Function
\* makes the call yield the not-valid-function Error; no body is evaluated.
C11_NotAFunction ==
    [][(/\ At("eval_call_expression", "function")
        /\ ~(ret.some /\ ret.obj.type = "Function")) =>
            /\ ret'.type = "Error"
            /\ ret.some =>
                    ret' = ObjectError(ObjectDisplay(ret.obj) \o " is not valid function")
            /\ stack' = Callers
            /\ heap' = heap
            /\ environment' = environment]_vars

\* C11 amended: a callee that evaluates to a value other than a Function makes
\* the call yield Error("<value> is not valid function"); a callee that yields
\* no value makes the call yield Null; in both cases no environment is
\* created and no body is evaluated.
C11_NotAFunctionValue ==
    [][(/\ At("eval_call_expression", "function")
        /\ ~(ret.some /\ ret.obj.type = "Function")) =>
            /\ ret' = IF ret.some
                      THEN ObjectError(ObjectDisplay(ret.obj) \o " is not valid function")
                      ELSE ObjectNull
            /\ stack' = Callers
            /\ heap' = heap
            /\ environment' = environment]_vars

\* a call whose callee evaluated to an Int has returned the Error
C11_Witness ==
    /\ Happened("returned")
    /\ Latest.function.some
    /\ Latest.function.obj.type = "Int"
    /\ Latest.frame = NoOuter
    /\ Latest.object = ObjectError(ObjectDisplay(Latest.function.obj)
                                   \o " is not valid function")

\* C12: an if-expression whose condition has a value evaluates its consequence
\* exactly when that value is neither Null nor Bool(false); otherwise it
\* evaluates the alternative when there is one and else yields no value; it
\* evaluates one block at most and yields what that block yields.
C12_IfSelects ==
    /\ [][(At("eval_if_expression", "condition") /\ ret.some) =>
            IF ret.obj /= ObjectNull /\ ret.obj /= ObjectBool(FALSE)
            THEN stack' = Callers \o <<[Top EXCEPT !.pc = "block"],
                                       FrameBlockStatement(Top.consequence)>>
            ELSE IF Top.alternative.some
            THEN stack' = Callers \o <<[Top EXCEPT !.pc = "block"],
                                       FrameBlockStatement(Top.alternative.obj)>>
            ELSE stack' = Callers /\ ret' = None]_vars
    /\ [][At("eval_if_expression", "block") =>
            (stack' = Callers /\ ret' = ret)]_vars

\* the condition Int(0) has just selected the consequence of an if-expression
\* that has an alternative
C12_Witness ==
    /\ Len(stack) >= 2
    /\ stack[Len(stack) - 1].fn = "eval_if_expression"
    /\ stack[Len(stack) - 1].pc = "block"
    /\ stack[Len(stack) - 1].alternative.some
    /\ Top = FrameBlockStatement(stack[Len(stack) - 1].consequence)
    /\ ret = Some(ObjectInt(I64(0)))

\* the i-th observation is an application of `!`
Negates(i) == history[i].ev = "prefix" /\ history[i].prefix = "Not"

\* C13: !x is the Bool that is true exactly when x is Null or Bool(false),
\* the negation of the truthiness by which an if-expression selects its
\* consequence; !!x is the truthiness of x.
C13_NotNegatesTruthiness ==
    \A i \in Events :
        Negates(i) =>
            /\ history[i].object =
                    ObjectBool(history[i].right \in {ObjectNull, ObjectBool(FALSE)})
            /\ history[i].object.bool
                    <=> ~if_selects(history[i].right, <<>>, None).some
            /\ (i + 2 \in Events /\ Negates(i + 2)
                    /\ history[i + 2].right = history[i].object) =>
                    history[i + 2].object =
                        ObjectBool(if_selects(history[i].right, <<>>, None).some)

\* !!0 has been evaluated to true
C13_Witness ==
    \E i \in Events :
        /\ Negates(i)
        /\ history[i].right = ObjectInt(I64(0))
        /\ i + 2 \in Events
        /\ Negates(i + 2)
        /\ history[i + 2].right = history[i].object
        /\ history[i + 2].object = ObjectBool(TRUE)

\* the environments from `address` outwards, innermost first
RECURSIVE Scopes(_)
Scopes(address) ==
    IF address = NoOuter THEN <<>> ELSE <<address>> \o Scopes(heap[address].outer)

\* C14: an identifier evaluates to the value bound in the innermost scope of
\* the active environment chain that binds its name, and to
\* Error("identifier not found: <name>") when no scope of the chain binds it.
C14_IdentifierResolution ==
    (Happened("value") /\ Latest.expression.kind = "Identifier") =>
        LET name == Latest.expression.name
            chain == Scopes(Latest.env)
            binding == {k \in 1..Len(chain) : Bound(heap[chain[k]].store, name)}
        IN  /\ Latest.env = environment
            /\ IF binding = {}
               THEN Latest.value = Some(ObjectError("identifier not found: " \o name))
               ELSE LET k == CHOOSE b \in binding : \A c \in binding : b <= c
                    IN  Latest.value = Some(Lookup(heap[chain[k]].store, name))

\* a name bound in the call frame and, to another value, at top level has
\* just been resolved inside the call
C14_Witness ==
    /\ Happened("value")
    /\ Latest.expression.kind = "Identifier"
    /\ Latest.env /= TopLevel
    /\ Bound(heap[Latest.env].store, Latest.expression.name)
    /\ Bound(heap[TopLevel].store, Latest.expression.name)
    /\ Lookup(heap[TopLevel].store, Latest.expression.name)
            /= Lookup(heap[Latest.env].store, Latest.expression.name)
    /\ Latest.value = Some(Lookup(heap[Latest.env].store, Latest.expression.name))

\* C15: when a call that ran a body has returned, every environment that
\* existed when the call frame was created, the caller's and the captured one
\* among them, holds the bindings it held then: every name resolves in them
\* as it did before the call.
C15_OuterScopesUntouched ==
    (Happened("returned") /\ Latest.frame /= NoOuter) =>
        LET before == FrameOf(Latest.frame).heap
            captured == FrameOf(Latest.frame).function.env
        IN  /\ \A address \in 1..Len(before) : heap[address] = before[address]
            /\ \A address \in {Latest.entered_in, captured} :
                \A i \in 1..Len(heap[Latest.frame].store) :
                    LET name == heap[Latest.frame].store[i][1]
                    IN  EnvironmentGet(heap, address, name)
                            = EnvironmentGet(before, address, name)

\* a call has returned whose body executed a let of a name that its caller
\* binds to another value
C15_Witness ==
    /\ Happened("returned")
    /\ Latest.frame /= NoOuter
    /\ \E i \in Events :
        /\ history[i].ev = "set"
        /\ history[i].env = Latest.frame
        /\ Bound(heap[Latest.entered_in].store, history[i].name)
        /\ Lookup(heap[Latest.entered_in].store, history[i].name) /= history[i].value
        /\ Lookup(heap[Latest.frame].store, history[i].name) = history[i].value

Frames == {i \in Events : history[i].ev = "frame"}

\* C16: a function literal yields a Function that holds the active
\* environment itself, and creates no environment (the only environments are
\* the top-level one and one per call frame); so `let f = fn() { late };
\* let late = a; f()` yields a, `let v = a; let f = fn() { v }; let v = b;
\* f()` yields b, and the let-bound recursive `sum` called with k yields
\* 0 + 1 + ... + k.
C16_SharedEnvironment ==
    /\ (Happened("value") /\ Latest.expression.kind = "Function") =>
            Latest.value.obj.env = environment
    /\ Len(heap) = 1 + Cardinality(Frames)
    /\ (status = "done" /\ Len(program) = 3
            /\ program[1] = LetStatement("f", Fn0(<<Stmt(Identifier("late"))>>))) =>
            output = Some(eval_literal(program[2].expression.literal))
    /\ (status = "done" /\ Len(program) = 4
            /\ program[2] = LetStatement("f", Fn0(<<Stmt(Identifier("v"))>>))) =>
            output = Some(eval_literal(program[3].expression.literal))
    /\ (status = "done" /\ Len(program) = 2
            /\ program[1] = LetStatement("sum", SumFunction)) =>
            LET k == Value(program[2].expression.arguments[1].literal.int)
            IN  output = Some(ObjectInt(I64((k * (k + 1)) \div 2)))

\* sum(2) has returned 3 after three nested calls of sum by its own name
C16_Witness ==
    /\ status = "done"
    /\ Len(program) = 2
    /\ program[1] = LetStatement("sum", SumFunction)
    /\ output = Some(ObjectInt(I64(3)))
    /\ Cardinality(Frames) = 3
    /\ \A i \in Frames : history[i].function.env = TopLevel

\* the observation at which the call observed at c returns, or the end of
\* the history when it has not returned yet
ReturnOf(c) ==
    LET returns == {j \in Events : /\ j > c
                                   /\ history[j].ev = "returned"
                                   /\ history[j].level = history[c].level + 1}
    IN  IF returns = {} THEN Len(history) + 1
        ELSE CHOOSE j \in returns : \A k \in returns : j <= k

\* the evaluations made by eval_call_expression itself for the call observed
\* at c: those of its argument expressions and of its callee expression
Direct(c) ==
    {i \in Events : /\ c < i
                    /\ i < ReturnOf(c)
                    /\ history[i].ev = "value"
                    /\ history[i].level = history[c].level + 2}

\* C17: the evaluations a call makes are, in this order, one of each argument
\* expression from left to right and then one of the callee expression, all
\* in the environment active at the call; the values of the arguments are
\* the ones handed to the function, and the call frame is created, and the
\* body entered, after all of them.
C17_CallOrder ==
    \A c \in Events :
        history[c].ev = "call" =>
            LET arguments == history[c].expression.arguments
                n == Len(arguments)
                r == ReturnOf(c)
                rank(i) == Cardinality({j \in Direct(c) : j <= i})
            IN  /\ \A i \in Direct(c) :
                    /\ history[i].env = history[c].env
                    /\ rank(i) <= n + 1
                    /\ rank(i) <= n => history[i].expression = arguments[rank(i)]
                    /\ rank(i) = n + 1 =>
                            history[i].expression = history[c].expression.function
                /\ r \in Events =>
                    /\ Cardinality(Direct(c)) = n + 1
                    /\ Len(history[r].objects) = n
                    /\ \A i \in Direct(c) :
                        rank(i) <= n =>
                            history[r].objects[rank(i)] = unwrap_or_null(history[i].value)
                /\ \A f \in Events :
                    (/\ c < f
                     /\ f < r
                     /\ history[f].ev = "frame"
                     /\ history[f].level = history[c].level + 1) =>
                        /\ Cardinality(Direct(c)) = n + 1
                        /\ \A i \in Direct(c) : i < f
                        /\ \A b \in Events :
                            (/\ history[b].ev = "statement"
                             /\ history[b].env = history[f].env) => f < b

\* a call of two different arguments, the first of them a call itself, has
\* run its body and returned
C17_Witness ==
    \E c \in Events :
        /\ history[c].ev = "call"
        /\ Len(history[c].expression.arguments) = 2
        /\ history[c].expression.arguments[1].kind = "Call"
        /\ history[c].expression.arguments[2].kind = "Literal"
        /\ ReturnOf(c) = Len(history)
        /\ Latest.frame /= NoOuter
        /\ Latest.objects[1] /= Latest.objects[2]

----------------------------------------------------------------------------
(* Properties of the parser.                                               *)

\* the tokens of the line
Line == parser.lexer.input
\* parse_program has returned
ParseDone == status /= "parsing" /\ ~parser.panicked /\ cur_token_is(parser, Token("Eof"))

IsOperand(token) == token.kind \in {"Ident", "Int", "Bool"}
Operand(token) ==
    CASE token.kind = "Ident" -> Identifier(token.name)
      [] token.kind = "Int" -> LiteralInt(token.int)
      [] token.kind = "Bool" -> LiteralBool(token.bool)

\* the operator a token stands for
Operator(kind) ==
    CASE kind = "Asterisk" -> "Multiply"
      [] kind = "Slash" -> "Divide"
      [] kind = "Bang" -> "Not"
      [] OTHER -> kind

\* the precedence order of the binary operators:
\* Equals < LessGreater < Sum < Product
Binds(kind) ==
    CASE kind \in {"Equal", "NotEqual"} -> 1
      [] kind \in {"LessThan", "GreaterThan"} -> 2
      [] kind \in {"Plus", "Minus"} -> 3
      [] kind \in {"Asterisk", "Slash"} -> 4

Binary(kind, left, right) == InfixExpression(Operator(kind), left, right)
Unary(kind, right) == PrefixExpression(Operator(kind), right)
IsBinary(token) == token.kind \in InfixTokens
IsUnary(token) == token.kind \in PrefixKinds
Is(token, kind) == token.kind = kind
Yields(expression) == program = <<Stmt(expression)>> /\ parser.errors = <<>>

\* C18: `x op1 y op2 z` parses as `(x op1 y) op2 z` when op2 binds no
\* tighter than op1 and as `x op1 (y op2 z)` when it binds tighter; a
\* parenthesized sub-expression is one operand; a prefix operator binds
\* tighter than a binary one, and a call tighter than both.
C18_Precedence ==
    ParseDone =>
        /\ (/\ Len(Line) = 5
            /\ IsOperand(Line[1]) /\ IsBinary(Line[2]) /\ IsOperand(Line[3])
            /\ IsBinary(Line[4]) /\ IsOperand(Line[5])) =>
                Yields(IF Binds(Line[4].kind) <= Binds(Line[2].kind)
                       THEN Binary(Line[4].kind,
                                   Binary(Line[2].kind, Operand(Line[1]), Operand(Line[3])),
                                   Operand(Line[5]))
                       ELSE Binary(Line[2].kind, Operand(Line[1]),
                                   Binary(Line[4].kind, Operand(Line[3]),
                                          Operand(Line[5]))))
        /\ (/\ Len(Line) = 7
            /\ IsOperand(Line[1]) /\ IsBinary(Line[2]) /\ Is(Line[3], "Lparen")
            /\ IsOperand(Line[4]) /\ IsBinary(Line[5]) /\ IsOperand(Line[6])
            /\ Is(Line[7], "Rparen")) =>
                Yields(Binary(Line[2].kind, Operand(Line[1]),
                              Binary(Line[5].kind, Operand(Line[4]), Operand(Line[6]))))
        /\ (/\ Len(Line) = 7
            /\ Is(Line[1], "Lparen") /\ IsOperand(Line[2]) /\ IsBinary(Line[3])
            /\ IsOperand(Line[4]) /\ Is(Line[5], "Rparen") /\ IsBinary(Line[6])
            /\ IsOperand(Line[7])) =>
                Yields(Binary(Line[6].kind,
                              Binary(Line[3].kind, Operand(Line[2]), Operand(Line[4])),
                              Operand(Line[7])))
        /\ (/\ Len(Line) = 4
            /\ IsUnary(Line[1]) /\ IsOperand(Line[2]) /\ IsBinary(Line[3])
            /\ IsOperand(Line[4])) =>
                Yields(Binary(Line[3].kind, Unary(Line[1].kind, Operand(Line[2])),
                              Operand(Line[4])))
        /\ (/\ Len(Line) = 4
            /\ IsOperand(Line[1]) /\ IsBinary(Line[2]) /\ IsUnary(Line[3])
            /\ IsOperand(Line[4])) =>
                Yields(Binary(Line[2].kind, Operand(Line[1]),
                              Unary(Line[3].kind, Operand(Line[4]))))
        /\ (/\ Len(Line) = 3
            /\ IsUnary(Line[1]) /\ IsUnary(Line[2]) /\ IsOperand(Line[3])) =>
                Yields(Unary(Line[1].kind, Unary(Line[2].kind, Operand(Line[3]))))
        /\ (/\ Len(Line) = 5
            /\ IsUnary(Line[1]) /\ Is(Line[2], "Ident") /\ Is(Line[3], "Lparen")
            /\ IsOperand(Line[4]) /\ Is(Line[5], "Rparen")) =>
                Yields(Unary(Line[1].kind,
                             CallExpression(Operand(Line[2]), <<Operand(Line[4])>>)))
        /\ (/\ Len(Line) = 6
            /\ Is(Line[1], "Ident") /\ Is(Line[2], "Lparen") /\ IsOperand(Line[3])
            /\ Is(Line[4], "Rparen") /\ IsBinary(Line[5]) /\ IsOperand(Line[6])) =>
                Yields(Binary(Line[5].kind,
                              CallExpression(Operand(Line[1]), <<Operand(Line[3])>>),
                              Operand(Line[6])))
        /\ (/\ Len(Line) = 6
            /\ IsOperand(Line[1]) /\ IsBinary(Line[2]) /\ Is(Line[3], "Ident")
            /\ Is(Line[4], "Lparen") /\ IsOperand(Line[5]) /\ Is(Line[6], "Rparen")) =>
                Yields(Binary(Line[2].kind, Operand(Line[1]),
                              CallExpression(Operand(Line[3]), <<Operand(Line[5])>>)))

\* a - b - c and a + b * c have been parsed
C18_Witness ==
    /\ ParseDone
    /\ Len(Line) = 5
    /\ Is(Line[1], "Ident")
    /\ \/ /\ Is(Line[2], "Minus") /\ Is(Line[4], "Minus")
          /\ program = <<Stmt(InfixExpression("Minus",
                InfixExpression("Minus", Identifier("a"), Identifier("b")),
                Identifier("c")))>>
       \/ /\ Is(Line[2], "Plus") /\ Is(Line[4], "Asterisk")
          /\ program = <<Stmt(InfixExpression("Plus", Identifier("a"),
                InfixExpression("Multiply", Identifier("b"), Identifier("c"))))>>

\* the line is `a op b` or `a op b;` for the operands a and b and an
\* operator token op, and parse_program is over
IsOperation(a, b) ==
    /\ status /= "parsing"
    /\ Len(Line) > Len(a.tokens)
    /\ Line[Len(a.tokens) + 1].kind \in InfixKinds
    /\ \E end \in Endings :
            Line = a.tokens \o <<Line[Len(a.tokens) + 1]>> \o b.tokens \o end

\* the operator token of the line `a op b`
Op(a) == Line[Len(a.tokens) + 1]

\* C19 as stated: for each of + - * / == != < > <= >=, `a op b` parses with
\* no error to one expression statement holding Infix(op, a, b).
C19_TenInfixOperators ==
    \A a \in Operands, b \in Operands :
        IsOperation(a, b) =>
            /\ ParseDone
            /\ Yields(Binary(Op(a).kind, a.expression, b.expression))

\* C19 amended: for each of + - * / == != < >, `a op b` parses with no error
\* to one expression statement holding Infix(op, a, b); for `<=` and `>=`
\* no Infix node joining a and b is built.
C19_EightInfixOperators ==
    \A a \in Operands, b \in Operands :
        IsOperation(a, b) =>
            IF IsBinary(Op(a))
            THEN /\ ParseDone
                 /\ Yields(Binary(Op(a).kind, a.expression, b.expression))
            ELSE \A i \in 1..Len(program) :
                    ~(/\ program[i].kind = "Expression"
                      /\ program[i].expression.kind = "Infix")

\* `1 > 2;` has been parsed
C19_Witness ==
    /\ ParseDone
    /\ Line = <<TokenInt(I64(1)), Token("GreaterThan"), TokenInt(I64(2)), Token("Semicolon")>>
    /\ program = <<Stmt(InfixExpression("GreaterThan", LiteralInt(I64(1)), LiteralInt(I64(2))))>>
    /\ parser.errors = <<>>

\* the token that follows peek_token
AfterPeek == LexerNextToken(parser.lexer).token

\* parse_program is at a let statement whose identifier is not followed by `=`
LetWithoutAssign ==
    /\ status = "parsing"
    /\ Is(parser.cur_token, "Let")
    /\ Is(parser.peek_token, "Ident")
    /\ ~Is(AfterPeek, "Assign")

\* C20: the turn of parse_program's loop that meets a let statement whose
\* identifier is not followed by `=` adds exactly one UnexpectedToken error,
\* naming Assign as expected and the token after the identifier as found,
\* adds no statement, and leaves parse_program running at that token;
\* parse_program is not stopped on such a line: it goes on to Eof, and the
\* Program then holds no Let statement.
C20_LetWithoutAssign ==
    /\ [][LetWithoutAssign =>
            /\ parser'.errors = Append(parser.errors,
                    [kind |-> "UnexpectedToken",
                     msg |-> "expected next token to be Assign, got "
                                \o TokenDebug(AfterPeek) \o " instead"])
            /\ program' = program
            /\ status' = "parsing"
            /\ ~parser'.panicked
            /\ parser'.cur_token = AfterPeek]_vars
    /\ [](((status /= "parsing")
            /\ Len(Line) >= 2
            /\ Is(Line[1], "Let") /\ Is(Line[2], "Ident")
            /\ (Len(Line) >= 3 => ~Is(Line[3], "Assign"))) =>
                /\ ~parser.panicked
                /\ parser.errors /= <<>>
                /\ parser.errors[1].msg = "expected next token to be Assign, got "
                        \o TokenDebug(IF Len(Line) >= 3 THEN Line[3] ELSE Token("Eof"))
                        \o " instead"
                /\ cur_token_is(parser, Token("Eof"))
                /\ \A i \in 1..Len(program) : program[i].kind /= "Let")

\* parse_program is at a construct whose required token is absent: the
\* identifier of a let, the `(` of an if or of a fn, or the first parameter
\* identifier of a fn
RequiredTokenAbsent ==
    /\ status = "parsing"
    /\ \/ Is(parser.cur_token, "Let") /\ ~Is(parser.peek_token, "Ident")
       \/ Is(parser.cur_token, "If") /\ ~Is(parser.peek_token, "Lparen")
       \/ Is(parser.cur_token, "Function") /\ ~Is(parser.peek_token, "Lparen")
       \/ /\ Is(parser.cur_token, "Function") /\ Is(parser.peek_token, "Lparen")
          /\ AfterPeek.kind \notin {"Ident", "Rparen"}

\* C21: the turn of parse_program's loop that meets a construct whose
\* required token is absent appends exactly one UnexpectedToken error; so
\* when parse_program has returned from a line that began with such a
\* construct, the error list is not empty.
C21_OneErrorPerAbort ==
    /\ [][RequiredTokenAbsent =>
            /\ Len(parser'.errors) = Len(parser.errors) + 1
            /\ parser'.errors[Len(parser'.errors)].kind = "UnexpectedToken"]_vars
    /\ []((ParseDone /\ Len(Line) >= 1 /\ Is(Line[1], "Let")
            /\ (Len(Line) >= 2 => ~Is(Line[2], "Ident"))) => parser.errors /= <<>>)

\* parse_program is at a token that starts no statement and has no prefix
\* rule, followed by an infix operator or by `(`
NoPrefixBeforeInfix ==
    /\ status = "parsing"
    /\ parser.cur_token.kind \notin {"Eof", "Let", "Return", "Ident", "Int", "Bool",
                                     "Bang", "Minus", "Lparen", "If", "Function"}
    /\ parser.peek_token.kind \in InfixTokens \cup {"Lparen"}

\* C24: parse_program never aborts: every turn of its loop either adds a
\* statement or adds none and goes on at the next token, and a token that
\* has no prefix rule adds no statement even when an infix operator or `(`
\* follows it.
C24_ParseProgramTotal ==
    /\ [](status = "panic" => ~parser.panicked)
    /\ [][NoPrefixBeforeInfix =>
            /\ program' = program
            /\ status' = "parsing"
            /\ parser'.cur_token = parser.peek_token]_vars

\* the line is `let x = n; s` or `return n; s` for a statement s
LetThenStatement(s) ==
    \E n \in 1..MaxInt :
        Line = <<Token("Let"), TokenIdent("x"), Token("Assign"), TokenInt(I64(n)),
                 Token("Semicolon")>> \o s.tokens
ReturnThenStatement(s) ==
    \E n \in 1..MaxInt :
        Line = <<Token("Return"), TokenInt(I64(n)), Token("Semicolon")>> \o s.tokens

\* C25: `let x = e; s` parses with no error to the Let statement followed by
\* the statement of s, and `return e; s` to the Return statement followed by
\* the statement of s, whatever the first token of s.
C25_SemicolonConsumed ==
    \A s \in Following :
        /\ (status /= "parsing" /\ LetThenStatement(s)) =>
                /\ ~parser.panicked
                /\ parser.errors = <<>>
                /\ program = <<LetStatement("x", Operand(Line[4])), s.statement>>
        /\ (status /= "parsing" /\ ReturnThenStatement(s)) =>
                /\ ~parser.panicked
                /\ parser.errors = <<>>
                /\ program = <<ReturnStatement(Operand(Line[2])), s.statement>>

\* the line is `head`, the statements of b and then, when closed, a `}`
BlockLine(head, b, closed) ==
    Line = head \o b.tokens \o (IF closed THEN <<Token("Rbrace")>> ELSE <<>>)

\* C26: a block holds the statements up to its `}` or up to the end of the
\* input; a block that the end of the input leaves open gives the same if
\* or fn node as the closed one and records no ParseError.
C26_UnterminatedBlock ==
    \A b \in Blocks : \A closed \in BOOLEAN :
        /\ (status /= "parsing" /\ BlockLine(IfHead, b, closed)) =>
                /\ ~parser.panicked
                /\ parser.errors = <<>>
                /\ program = <<Stmt(IfExpression(LiteralBool(TRUE), b.statements,
                                                 None))>>
        /\ (status /= "parsing" /\ BlockLine(ElseHead, b, closed)) =>
                /\ ~parser.panicked
                /\ parser.errors = <<>>
                /\ program = <<Stmt(IfExpression(LiteralBool(FALSE),
                                                 <<Stmt(LiteralInt(I64(2)))>>,
                                                 Some(b.statements)))>>
        /\ (status /= "parsing" /\ BlockLine(FnHead, b, closed)) =>
                /\ ~parser.panicked
                /\ parser.errors = <<>>
                /\ program = <<Stmt(FunctionExpression(<<"x">>, b.statements))>>

\* `fn(x) { x; 1` has been parsed: the function holds the block x; 1
C26_Witness ==
    /\ status /= "parsing"
    /\ Line = FnHead \o <<TokenIdent("x"), Token("Semicolon"), TokenInt(I64(1))>>
    /\ cur_token_is(parser, Token("Eof"))
    /\ parser.errors = <<>>
    /\ program = <<Stmt(FunctionExpression(<<"x">>,
                        <<Stmt(Identifier("x")), Stmt(LiteralInt(I64(1)))>>))>>

----------------------------------------------------------------------------
(* Properties of the evaluator's environments.                             *)

\* a let statement is about to act on the value of its expression
LetHasValue == At("eval_statement", "value") /\ Top.statement.kind = "Let" /\ ret.some

StoreNames(store) == {store[i][1] : i \in 1..Len(store)}

\* C27: a let whose expression evaluated to an Error yields that Error and
\* changes no binding of any environment; a let whose expression evaluated
\* to another value yields no value, binds its name to that value in the
\* active environment and changes no other binding of any environment.
C27_LetBindsUnlessError ==
    [][LetHasValue =>
        LET name == Top.statement.identifier
            before == heap[environment].store
            after == heap'[environment].store
        IN  /\ DOMAIN heap' = DOMAIN heap
            /\ \A a \in DOMAIN heap : a /= environment => heap'[a] = heap[a]
            /\ heap'[environment].outer = heap[environment].outer
            /\ StoreNames(after) \ {name} = StoreNames(before) \ {name}
            /\ \A n \in StoreNames(before) \ {name} :
                    Lookup(after, n) = Lookup(before, n)
            /\ IF is_error(ret.obj)
               THEN /\ ret' = Some(ret.obj)
                    /\ heap' = heap
               ELSE /\ ret' = None
                    /\ Bound(after, name)
                    /\ Lookup(after, name) = ret.obj]_vars

\* `let v = 1; let w = 2; let v = foobar; v` has ended with the Error of
\* foobar, v still bound to 1 and w to 2
C27_Witness ==
    /\ status = "done"
    /\ program = <<LetStatement("v", LiteralInt(I64(1))), LetStatement("w", LiteralInt(I64(2))),
                   LetStatement("v", Identifier("foobar")), Stmt(Identifier("v"))>>
    /\ output = Some(ObjectError("identifier not found: foobar"))
    /\ heap[TopLevel].store = <<<<"v", ObjectInt(I64(1))>>, <<"w", ObjectInt(I64(2))>>>>

\* an Int/Int division is about to be applied to a right operand of 0
DivisionByZero ==
    /\ At("eval_expression", "infix_right")
    /\ Top.expression.infix = "Divide"
    /\ Top.left.some /\ Top.left.obj.type = "Int"
    /\ ret.some /\ ret.obj.type = "Int" /\ ret.obj.int = I64(0)

\* C28: a division of an Int by the Int 0 yields an Error object and the
\* evaluation goes on; evaluation never aborts.
C28_DivisionYieldsError ==
    /\ [][DivisionByZero =>
            /\ status' = "running"
            /\ ret'.some
            /\ is_error(ret'.obj)]_vars
    /\ [](status = "panic" => parser.panicked)

\* the environments captured by the Function values bound in environment a
Captured(a) ==
    {heap[a].store[i][2].env :
        i \in {j \in 1..Len(heap[a].store) : heap[a].store[j][2].type = "Function"}}

\* the environments a refers to through one of its bindings: a captured
\* environment or one of the outer environments of a captured one
RefersTo(a) ==
    UNION {{Scopes(c)[k] : k \in 1..Len(Scopes(c))} : c \in Captured(a)}

\* C29: no Environment is reachable from itself through one of its own
\* bindings to a Function, that Function's captured environment and the
\* outer links from there.
C29_NoEnvironmentCycle ==
    \A a \in DOMAIN heap : a \notin RefersTo(a)

\* C30: environments are created per function call only, none per if
\* branch: a let in the consequence or alternative of an if binds its name
\* in the active environment of the enclosing program or call, where the
\* statement after the if finds it.
C30_IfOpensNoScope ==
    /\ Len(heap) = 1 + Cardinality({i \in Events : history[i].ev = "frame"})
    /\ \A c \in BOOLEAN : \A n \in Ints : \A m \in Ints :
        LET chosen == ObjectInt(I64(IF c THEN n ELSE m))
        IN  /\ (status = "done" /\ program = IfLetTop(c, n, m)) =>
                    /\ output = Some(chosen)
                    /\ heap = <<[store |-> <<<<"branch", chosen>>>>, outer |-> NoOuter]>>
            /\ (status = "done" /\ program = IfLetCall(c, n, m)) =>
                    /\ output = Some(ObjectError("identifier not found: branch"))
                    /\ Len(heap) = 2
                    /\ heap[TopLevel].store = <<>>
                    /\ heap[2] = [store |-> <<<<"branch", chosen>>>>, outer |-> TopLevel]
                    /\ \E i \in Events : /\ history[i].ev = "returned"
                                         /\ history[i].object = chosen

\* `fn() { if (false) { let branch = 1 } else { let branch = 2 }; branch }();
\* branch` has ended: the call returned 2, the top level does not bind branch
C30_Witness ==
    /\ status = "done"
    /\ program = IfLetCall(FALSE, 1, 2)
    /\ heap[2].store = <<<<"branch", ObjectInt(I64(2))>>>>
    /\ \E i \in Events : history[i].ev = "returned" /\ history[i].object = ObjectInt(I64(2))
    /\ output = Some(ObjectError("identifier not found: branch"))

----------------------------------------------------------------------------
(* Properties of the front end, main.rs.                                   *)

\* the line readline returned last
Typed == rl.lines[rl.position]

\* C22: a line whose parse recorded a ParseError is never evaluated: from
\* the first error on, the line's parse and its rejection leave every
\* Environment as it is, the evaluator is not started on it, and the next
\* thing that happens is the reading of another line.
C22_ErrorLineNotEvaluated ==
    /\ [][(status = "parsing" /\ Len(parser'.errors) > 0) =>
            /\ status' \in {"parsing", "rejected", "panic"}
            /\ heap' = heap
            /\ environment' = environment]_vars
    /\ [][(status = "parsing" /\ status' = "parsing") =>
            Len(parser'.errors) >= Len(parser.errors)]_vars
    /\ [][status = "rejected" =>
            /\ status' = "parsing"
            /\ heap' = heap
            /\ environment' = environment]_vars

\* after `let x = 1`, the line `let x = 2; let y 5` has been rejected and x
\* is still bound to 1
C22_Witness ==
    /\ status = "rejected"
    /\ rl.position = 2
    /\ rl.lines[1] = LetX(1)
    /\ Typed = LetXThenError
    /\ Len(parser.errors) = 1
    /\ heap[TopLevel].store = <<<<"x", ObjectInt(I64(1))>>>>

\* the lines before the k-th that were evaluated and bind x
BindingLines(k) == {j \in 1..(k - 1) : \E n \in 1..2 : rl.lines[j] = LetX(n)}
Last(js) == CHOOSE j \in js : \A i \in js : i <= j
\* what x resolves to on line k
ValueOfX(k) ==
    IF BindingLines(k) = {} THEN ObjectError("identifier not found: x")
    ELSE ObjectInt(rl.lines[Last(BindingLines(k))][4].int)

\* C23: on every line, x resolves to the value of the latest `let x = n`
\* among the lines evaluated before it, directly and through a function
\* bound on an earlier line, and is not found when there is none; between
\* the lines the evaluator's environment is the top-level one.
C23_EnvironmentPersists ==
    /\ (status = "done" /\ rl.position > 0 /\ Typed = ReadX) =>
            output = Some(ValueOfX(rl.position))
    /\ (/\ status = "done" /\ rl.position > 0 /\ Typed = CallF
        /\ \E j \in 1..(rl.position - 1) : rl.lines[j] = LetF) =>
            output = Some(ValueOfX(rl.position))
    /\ status \in {"reading", "parsing", "rejected", "done"} => environment = TopLevel

\* `let x = 1`, `let x = 2`, `x`: the third line has yielded 2
C23_Witness ==
    /\ status = "done"
    /\ rl = [lines |-> <<LetX(1), LetX(2), ReadX>>, position |-> 3]
    /\ output = Some(ObjectInt(I64(2)))

====
